---- MODULE Spec2Model ----
(***************************************************************************)
(* A model of the EBYTE E22 LoRa driver class ebyteE22 (src/loraE22.py).   *)
(*                                                                         *)
(* Python values are represented as follows.                               *)
(*   - a str is the sequence of its character codes (ord of each char);    *)
(*   - a bytes object / list of ints is a sequence of integers;            *)
(*   - the config dict is a function from key names to values;             *)
(*   - None is the string "None".                                          *)
(* The driver is MicroPython code (it imports machine, utime, ujson): the  *)
(* one-argument int(str) of MicroPython detects a base prefix, so that     *)
(* int('0b0110') is 6, which is what encodeConfig relies on.               *)
(***************************************************************************)
EXTENDS Integers, Sequences, FiniteSets, TLC

VARIABLES
    config,   \* self.config
    debug,    \* self.debug
    serdev,   \* self.serdev: "None", "open" or "deleted" (after del)
    pins,     \* whether the Pin objects exist, the last values written to M0 and M1,
              \* and the level of the AUX line
    file,     \* the file E22config.json
    trace,    \* what the last operation did: stream writes and reads, line writes, parsing
    ret,      \* value returned by the last operation
    input,    \* the arguments the caller holds for its next calls
    last,     \* the last operation: its name, arguments and the config before
    wait      \* a call of waitForDeviceIdle by the caller, step by step

vars == <<config, debug, serdev, pins, file, trace, ret, input, last, wait>>

None == "None"

\* A value returned: a str ('OK', 'NOK'), a text (a str held as its character
\* codes), bytes, a dict, None, or no value when an exception is raised.
Ret(kind, val) == [kind |-> kind, val |-> val]

\* Something an operation did: a write of the control lines ("pins"), an
\* idle wait ("idle"), a sleep ("sleep"), a write to or a read of the stream
\* ("write", "read"), a parse of JSON text ("loads").
Ev(ev, data) == [ev |-> ev, data |-> data]

\* What a read of the stream returns: None, or the bytes buffered.
ReadNone == [none |-> TRUE, data |-> <<>>]
ReadBytes(b) == [none |-> FALSE, data |-> b]

\* The record kept of a call: the operation, the state before it and the
\* arguments.
Call(op, pre, args) == [op |-> op, pre |-> pre, args |-> args]

-----------------------------------------------------------------------------
(* Strings                                                                 *)

\* Character codes of the characters the driver's texts are made of.
Code ==
    (" " :> 32) @@ ("\"" :> 34) @@ ("," :> 44) @@ ("-" :> 45) @@ (":" :> 58) @@
    ("0" :> 48) @@ ("1" :> 49) @@ ("2" :> 50) @@ ("3" :> 51) @@ ("4" :> 52) @@
    ("5" :> 53) @@ ("6" :> 54) @@ ("7" :> 55) @@ ("8" :> 56) @@ ("9" :> 57) @@
    ("A" :> 65) @@ ("B" :> 66) @@ ("C" :> 67) @@ ("D" :> 68) @@ ("E" :> 69) @@
    ("F" :> 70) @@ ("H" :> 72) @@ ("I" :> 73) @@ ("L" :> 76) @@ ("O" :> 79) @@
    ("a" :> 97) @@ ("b" :> 98) @@ ("g" :> 103) @@ ("i" :> 105) @@ ("l" :> 108) @@
    ("m" :> 109) @@ ("n" :> 110) @@ ("r" :> 114) @@ ("s" :> 115) @@ ("u" :> 117) @@
    ("c" :> 99) @@ ("e" :> 101) @@ ("h" :> 104) @@ ("k" :> 107) @@ ("o" :> 111) @@
    ("p" :> 112) @@ ("t" :> 116) @@ ("{" :> 123) @@ ("}" :> 125)

\* The str whose characters are the one-character strings of t.
Str(t) == [i \in DOMAIN t |-> Code[t[i]]]

\* Python s[a:b] and s[a:] for 0 <= a <= b, and s[i] for i >= 0.
PySlice(s, a, b) == SubSeq(s, a + 1, IF b < Len(s) THEN b ELSE Len(s))
PyFrom(s, a) == SubSeq(s, a + 1, Len(s))
PyIdx(s, i) == s[i + 1]
\* Python s[:-1] and s[-1].
PyDropLast(s) == SubSeq(s, 1, Len(s) - 1)
PyLast(s) == s[Len(s)]

RECURSIVE DecDigits(_)
DecDigits(n) == IF n < 10 THEN <<48 + n>> ELSE Append(DecDigits(n \div 10), 48 + (n % 10))

\* str(n) of an int.
PyStr(n) == IF n < 0 THEN <<45>> \o DecDigits(0 - n) ELSE DecDigits(n)

RECURSIVE BinDigits(_)
BinDigits(n) == IF n < 2 THEN <<48 + n>> ELSE Append(BinDigits(n \div 2), 48 + (n % 2))

\* '{0:0wb}'.format(n): binary digits, zero-padded to at least w characters.
FormatBin(n, w) ==
    LET d == BinDigits(n)
    IN  IF Len(d) >= w THEN d ELSE [i \in 1..(w - Len(d)) |-> 48] \o d

\* Value of a digit character in a base up to 16, or 99 when it is no digit.
DigitValue(c) ==
    IF c >= 48 /\ c <= 57 THEN c - 48
    ELSE IF c >= 65 /\ c <= 70 THEN c - 55
    ELSE IF c >= 97 /\ c <= 102 THEN c - 87
    ELSE 99

RECURSIVE DigitsValue(_, _)
DigitsValue(s, base) ==
    IF s = <<>> THEN 0
    ELSE base * DigitsValue(PyDropLast(s), base) + DigitValue(PyLast(s))

AllDigits(s, base) == Len(s) > 0 /\ \A i \in DOMAIN s : DigitValue(s[i]) < base

RECURSIVE LStrip(_)
LStrip(s) == IF s # <<>> /\ s[1] \in {32, 9, 10, 13} THEN LStrip(Tail(s)) ELSE s

RECURSIVE RStrip(_)
RStrip(s) == IF s # <<>> /\ PyLast(s) \in {32, 9, 10, 13} THEN RStrip(PyDropLast(s)) ELSE s

\* The base a prefix 0b or 0x announces at the head of u, or 0.
PrefixBase(u) ==
    IF Len(u) >= 2 /\ u[1] = 48
    THEN (IF u[2] \in {98, 66} THEN 2 ELSE IF u[2] \in {120, 88} THEN 16 ELSE 0)
    ELSE 0

\* The digits d of a number in base b, negated if neg.
ParseDigits(neg, d, b) ==
    IF AllDigits(d, b)
    THEN [exc |-> FALSE, val |-> IF neg THEN 0 - DigitsValue(d, b) ELSE DigitsValue(d, b)]
    ELSE [exc |-> TRUE, val |-> 0]

\* The unsigned text u in base b, the prefix of that base being skipped.
ParseBased(neg, u, b) ==
    ParseDigits(neg, IF PrefixBase(u) # 0 /\ PrefixBase(u) = b THEN PyFrom(u, 2) ELSE u, b)

\* The unsigned text u; base 0 stands for the base of the prefix, or 10.
ParseUnsigned(neg, u, base) ==
    ParseBased(neg, u, IF base # 0 THEN base ELSE IF PrefixBase(u) = 0 THEN 10 ELSE PrefixBase(u))

\* The stripped text t with its optional sign.
ParseSigned(t, base) ==
    ParseUnsigned(t # <<>> /\ t[1] = 45,
                  IF t # <<>> /\ t[1] \in {43, 45} THEN Tail(t) ELSE t,
                  base)

\* int(s, base) for base 2, 10 or 16 and base 0 (prefix detection): surrounding
\* whitespace and a sign are accepted, as is the prefix of the base.
\* The result is [exc |-> TRUE] for the ValueError of a malformed text.
ParseInt(s, base) == ParseSigned(RStrip(LStrip(s)), base)

\* MicroPython int(s) with one argument: the base is taken from the prefix.
PyInt(s) == ParseInt(s, 0)

\* d.get(k): the entry of dict d, or None.
DictGet(d, k) == IF k \in DOMAIN d THEN d[k] ELSE None

\* { v:k for k, v in d.items() }
DictInv(d) == [v \in {d[k] : k \in DOMAIN d} |-> CHOOSE k \in DOMAIN d : d[k] = v]

-----------------------------------------------------------------------------
(* Class tables                                                            *)

PARSTR == ("8N1" :> Str(<<"0","0">>)) @@ ("8O1" :> Str(<<"0","1">>)) @@
          ("8E1" :> Str(<<"1","0">>))
PARINV == DictInv(PARSTR)

BAUDRATE ==
    (1200 :> Str(<<"0","0","0">>)) @@ (2400 :> Str(<<"0","0","1">>)) @@
    (4800 :> Str(<<"0","1","0">>)) @@ (9600 :> Str(<<"0","1","1">>)) @@
    (19200 :> Str(<<"1","0","0">>)) @@ (38400 :> Str(<<"1","0","1">>)) @@
    (57600 :> Str(<<"1","1","0">>)) @@ (115200 :> Str(<<"1","1","1">>))
BAUDRINV == DictInv(BAUDRATE)

DATARATE ==
    ("0.3k" :> Str(<<"0","0","0">>)) @@ ("1.2k" :> Str(<<"0","0","1">>)) @@
    ("2.4k" :> Str(<<"0","1","0">>)) @@ ("4.8k" :> Str(<<"0","1","1">>)) @@
    ("9.6k" :> Str(<<"1","0","0">>)) @@ ("19.2k" :> Str(<<"1","0","1">>)) @@
    ("38.4k" :> Str(<<"1","1","0">>)) @@ ("62.5k" :> Str(<<"1","1","1">>))
DATARINV == DictInv(DATARATE)

CMDS == ("setConfigPwrDwnSave" :> 192) @@ ("getConfig" :> 193) @@
        ("setConfigPwrDwnNoSave" :> 194) @@ ("getVersion" :> 195)

OPERMODE == ("normal" :> Str(<<"0","0">>)) @@ ("wakeup" :> Str(<<"1","0">>)) @@
            ("config" :> Str(<<"0","1">>)) @@ ("sleep" :> Str(<<"1","1">>))

TXPOWER == (0 :> "22dBm") @@ (1 :> "17dBm") @@ (2 :> "13dBm") @@ (3 :> "10dBm")

TXPWRINV == ("22dBm" :> 0) @@ ("17dBm" :> 1) @@ ("13dBm" :> 2) @@ ("19dBm" :> 3)

SUBPINV == ("240B" :> Str(<<"0","0">>)) @@ ("128B" :> Str(<<"0","1">>)) @@
           ("64B" :> Str(<<"1","0">>)) @@ ("32B" :> Str(<<"1","1">>))

-----------------------------------------------------------------------------
(* Register image: encodeConfig and decodeConfig                           *)

\* d[k] = v on a dict.
Put(d, k, v) == (k :> v) @@ d

\* The text '0b' that starts every register's bit string.
Prefix0b == Str(<<"0","b">>)

\* The two address bytes in the other order.
RegisterImage_LowByteFirst(cfg, reg0, reg1, reg3) ==
    IF reg0.exc \/ reg1.exc \/ reg3.exc THEN [exc |-> TRUE, val |-> <<>>]
    ELSE [exc |-> FALSE,
          val |-> << 192, 0, 7,
                     cfg["address"] % 256, cfg["address"] \div 256,
                     cfg["netid"],
                     reg0.val, reg1.val,
                     cfg["channel"],
                     reg3.val >>]

\* The list encodeConfig returns once the three bit strings are parsed.
RegisterImage(cfg, reg0, reg1, reg3) ==
    IF reg0.exc \/ reg1.exc \/ reg3.exc THEN [exc |-> TRUE, val |-> <<>>]
    ELSE [exc |-> FALSE,
          val |-> << 192, 0, 7,
                     cfg["address"] \div 256, cfg["address"] % 256,
                     cfg["netid"],
                     reg0.val, reg1.val,
                     cfg["channel"],
                     reg3.val >>]

\* encodeConfig: the 10-element list, or the exception raised when a table
\* lookup yields None (str + None) or a bit string does not parse.
encodeConfig(cfg) ==
    IF \/ cfg["baudrate"] \notin DOMAIN BAUDRATE
       \/ cfg["parity"] \notin DOMAIN PARSTR
       \/ cfg["datarate"] \notin DOMAIN DATARATE
    THEN [exc |-> TRUE, val |-> <<>>]
    ELSE RegisterImage(cfg,
            PyInt(Prefix0b \o BAUDRATE[cfg["baudrate"]] \o PARSTR[cfg["parity"]]
                  \o DATARATE[cfg["datarate"]]),
            PyInt(Prefix0b \o DictGet(SUBPINV, "240B") \o PyStr(cfg["amb_noise"])
                  \o Str(<<"0","0","0">>) \o FormatBin(cfg["txpower"], 2)),
            PyInt(Prefix0b \o PyStr(cfg["rssi"]) \o PyStr(cfg["transmode"])
                  \o PyStr(cfg["repeater"]) \o PyStr(cfg["lbt"])
                  \o PyStr(cfg["worctrl"]) \o FormatBin(cfg["wutime"], 3)))

\* The parity slice of REG0 taken by decodeConfig.
ParityBits(bits) == PySlice(bits, 4, 6)

\* The statements of decodeConfig, in order; each group ends where the next
\* element of the message is read.
DecodeReg0(cfg, m) ==
    LET bits == FormatBin(PyIdx(m, 6), 8)
        c1 == Put(cfg, "baudrate", DictGet(BAUDRINV, PySlice(bits, 0, 3)))
        c2 == Put(c1, "parity", DictGet(PARINV, ParityBits(bits)))
    IN  Put(c2, "datarate", DictGet(DATARINV, PyFrom(bits, 5)))
DecodeReg1(cfg, m) ==
    LET bits == FormatBin(PyIdx(m, 7), 8)
        c1 == Put(cfg, "subpckt", PyInt(Prefix0b \o PySlice(bits, 0, 1)).val)
        c2 == Put(c1, "amb_noise", PyInt(<<PyIdx(bits, 2)>>).val)
    IN  Put(c2, "txpower", PyInt(Prefix0b \o PyFrom(bits, 6)).val)
DecodeReg3(cfg, m) ==
    LET bits == FormatBin(PyIdx(m, 9), 8)
        c1 == Put(cfg, "rssi", PyInt(<<PyIdx(bits, 0)>>).val)
        c2 == Put(c1, "transmode", PyInt(<<PyIdx(bits, 1)>>).val)
        c3 == Put(c2, "repeater", PyInt(<<PyIdx(bits, 2)>>).val)
        c4 == Put(c3, "lbt", PyInt(<<PyIdx(bits, 3)>>).val)
        c5 == Put(c4, "worctrl", PyInt(<<PyIdx(bits, 4)>>).val)
    IN  Put(c5, "wutime", PyInt(Prefix0b \o PyFrom(bits, 5)).val)

\* The k-th statement group of decodeConfig.
DecodeStep(k, cfg, m) ==
    CASE k = 1 -> Put(cfg, "address", PyIdx(m, 3) * 256 + PyIdx(m, 4))
      [] k = 2 -> Put(cfg, "netid", PyIdx(m, 5))
      [] k = 3 -> DecodeReg0(cfg, m)
      [] k = 4 -> DecodeReg1(cfg, m)
      [] k = 5 -> Put(cfg, "channel", PyIdx(m, 8))
      [] k = 6 -> DecodeReg3(cfg, m)

\* The first k statement groups of decodeConfig, in order.
RECURSIVE DecodeUpTo(_, _, _)
DecodeUpTo(k, cfg, m) ==
    IF k = 0 THEN cfg ELSE DecodeStep(k, DecodeUpTo(k - 1, cfg, m), m)

\* decodeConfig on a bytes object m: the config after it, and whether an
\* IndexError ended it (the assignments made before the error remain; group k
\* reads the elements of m up to index k + 3).
decodeConfig(cfg, m) ==
    [exc |-> Len(m) < 10,
     cfg |-> DecodeUpTo(IF Len(m) >= 10 THEN 6 ELSE IF Len(m) >= 5 THEN Len(m) - 4 ELSE 0,
                        cfg, m)]

\* calcFrequency: (minfreq + channel) MHz with minfreq = 850.125, held in kHz.
calcFrequency(cfg) == Put(cfg, "frequency", 850125 + 1000 * cfg["channel"])

\* The config dict the constructor builds.
Construct(Model, Port, Baudrate, Parity, AirDataRate, Address, Netid, Channel, transmode, RSSI, TXpower) ==
    calcFrequency(
        [ model |-> Model, port |-> Port, baudrate |-> Baudrate, parity |-> Parity,
          datarate |-> AirDataRate, address |-> Address, netid |-> Netid,
          channel |-> Channel, amb_noise |-> 0, rssi |-> RSSI,
          transmode |-> transmode, repeater |-> 0, lbt |-> 0, worctrl |-> 0,
          wutime |-> 3,
          txpower |-> IF TXpower \in DOMAIN TXPWRINV THEN TXPWRINV[TXpower] ELSE 0 ])

\* The constructor's defaults.
DefaultConfig ==
    Construct("900T22D", "U1", 9600, "8N1", "2.4k", 0, 0, 6, 0, 0, "22dBm")

-----------------------------------------------------------------------------
(* Checksum                                                                *)

RECURSIVE Sum(_)
Sum(s) == IF s = <<>> THEN 0 ELSE Sum(PyDropLast(s)) + PyLast(s)

RECURSIVE HexDigits(_)
HexDigits(n) ==
    LET c == IF n % 16 < 10 THEN 48 + (n % 16) ELSE 55 + (n % 16)
    IN  IF n < 16 THEN <<c>> ELSE Append(HexDigits(n \div 16), c)

\* '%2X' % n for n >= 0: upper-case hex digits, padded with spaces to 2 characters.
FormatHex2(n) == IF n < 16 THEN <<32>> \o HexDigits(n) ELSE HexDigits(n)

\* A mask of seven bits in place of eight.
LowByte_SevenBits(x) == x % 128

\* x & 0xFF of a (possibly negative) int: the low byte of its two's complement.
LowByte(x) == x % 256

\* The sum itself in place of its two's complement.
calcChecksum_NotNegated(payload) == FormatHex2(Sum(payload) % 256)

\* calcChecksum: the text '%2X' % (-(sum(ord(c) for c in payload) % 256) & 0xFF).
calcChecksum(payload) == FormatHex2(LowByte(0 - (Sum(payload) % 256)))

\* int(self.calcChecksum(text), 16), as sendMessage and recvMessage read it.
ChecksumByte(text) == ParseInt(calcChecksum(text), 16)

-----------------------------------------------------------------------------
(* JSON                                                                    *)
(* A payload dict is the sequence of its (key, value) items in the order   *)
(* ujson.dumps emits them; a value is a str, an int or None.  The texts    *)
(* handled hold no character that JSON escapes.                            *)

StrVal(s) == [t |-> "s", s |-> s, i |-> 0]
IntVal(n) == [t |-> "i", s |-> <<>>, i |-> n]
NullVal == [t |-> "null", s |-> <<>>, i |-> 0]

Quoted(s) == <<34>> \o s \o <<34>>

dumpsValue(v) ==
    IF v.t = "s" THEN Quoted(v.s)
    ELSE IF v.t = "i" THEN PyStr(v.i)
    ELSE Str(<<"n","u","l","l">>)

RECURSIVE dumpsItems(_)
dumpsItems(items) ==
    IF items = <<>> THEN <<>>
    ELSE LET it == Quoted(items[1][1]) \o <<58, 32>> \o dumpsValue(items[1][2])
         IN  IF Len(items) = 1 THEN it ELSE it \o <<44, 32>> \o dumpsItems(Tail(items))

\* ujson.dumps(payload) of a dict: '{"k": v, "k2": v2}'.
dumps(items) == <<123>> \o dumpsItems(items) \o <<125>>

\* The dict a payload denotes: a function from keys to values.
RECURSIVE DictOf(_)
DictOf(items) ==
    IF items = <<>> THEN << >>
    ELSE Put(DictOf(PyDropLast(items)), PyLast(items)[1], PyLast(items)[2])

\* First position from i on that holds no whitespace (Len + 1 at the end).
RECURSIVE SkipWs(_, _)
SkipWs(s, i) == IF i <= Len(s) /\ s[i] \in {32, 9, 10, 13} THEN SkipWs(s, i + 1) ELSE i

\* First position from i on that holds c (Len + 1 when there is none).
RECURSIVE Find(_, _, _)
Find(s, i, c) == IF i <= Len(s) /\ s[i] # c THEN Find(s, i + 1, c) ELSE i

\* First position from i on that holds no digit.
RECURSIVE SkipDigits(_, _)
SkipDigits(s, i) == IF i <= Len(s) /\ s[i] \in 48..57 THEN SkipDigits(s, i + 1) ELSE i

Fail == [ok |-> FALSE, val |-> NullVal, next |-> 0]

\* A JSON string starting at position i and closed at position j: its text
\* and the position after it.
StringUpTo(s, i, j) ==
    IF i <= Len(s) /\ s[i] = 34 /\ j <= Len(s)
       /\ \A k \in (i + 1)..(j - 1) : s[k] # 92 /\ s[k] >= 32
    THEN [ok |-> TRUE, val |-> StrVal(SubSeq(s, i + 1, j - 1)), next |-> j + 1]
    ELSE Fail

ParseString(s, i) == StringUpTo(s, i, Find(s, i + 1, 34))

\* A JSON number without fraction or exponent from position i on, its digits
\* being at the positions d to e - 1.
NumberUpTo(s, i, d, e) ==
    IF e > d /\ (e = d + 1 \/ s[d] # 48) /\ ~(e <= Len(s) /\ s[e] \in {46, 69, 101})
    THEN [ok |-> TRUE, val |-> IntVal(ParseInt(SubSeq(s, i, e - 1), 10).val), next |-> e]
    ELSE Fail

NumberFrom(s, i, d) == NumberUpTo(s, i, d, SkipDigits(s, d))

ParseNumber(s, i) == NumberFrom(s, i, IF i <= Len(s) /\ s[i] = 45 THEN i + 1 ELSE i)

\* A JSON value (string, integer or null) starting at position i.
ParseValue(s, i) ==
    IF i > Len(s) THEN Fail
    ELSE IF s[i] = 34 THEN ParseString(s, i)
    ELSE IF s[i] = 110
         THEN (IF i + 3 <= Len(s) /\ SubSeq(s, i, i + 3) = Str(<<"n","u","l","l">>)
               THEN [ok |-> TRUE, val |-> NullVal, next |-> i + 4] ELSE Fail)
    ELSE ParseNumber(s, i)

\* The members of an object from position i on, added to acc, up to the
\* closing brace, after which only whitespace may follow.
RECURSIVE ParseMembers(_, _, _)

\* After the member k: v, whose value ends before position e.
AfterMember(s, acc, k, v, e) ==
    IF ~v.ok \/ e > Len(s) THEN [exc |-> TRUE, val |-> << >>]
    ELSE IF s[e] = 44 THEN ParseMembers(s, SkipWs(s, e + 1), Put(acc, k.val.s, v.val))
    ELSE IF s[e] = 125 /\ SkipWs(s, e + 1) > Len(s)
         THEN [exc |-> FALSE, val |-> Put(acc, k.val.s, v.val)]
    ELSE [exc |-> TRUE, val |-> << >>]

MemberValue(s, acc, k, v) == AfterMember(s, acc, k, v, IF v.ok THEN SkipWs(s, v.next) ELSE 0)

\* After the key k, the colon being expected at position c.
AfterKey(s, acc, k, c) ==
    IF c > Len(s) \/ s[c] # 58 THEN [exc |-> TRUE, val |-> << >>]
    ELSE MemberValue(s, acc, k, ParseValue(s, SkipWs(s, c + 1)))

MemberKey(s, acc, k) ==
    IF ~k.ok THEN [exc |-> TRUE, val |-> << >>] ELSE AfterKey(s, acc, k, SkipWs(s, k.next))

ParseMembers(s, i, acc) == MemberKey(s, acc, ParseString(s, i))

\* The object whose opening brace is expected at position b.
ObjectAt(s, b, f) ==
    IF b > Len(s) \/ s[b] # 123 THEN [exc |-> TRUE, val |-> << >>]
    ELSE IF f <= Len(s) /\ s[f] = 125
         THEN [exc |-> SkipWs(s, f + 1) <= Len(s), val |-> << >>]
    ELSE ParseMembers(s, f, << >>)

ObjectFrom(s, b) == ObjectAt(s, b, SkipWs(s, b + 1))

\* ujson.loads(text) for the text of an object of scalar members: the dict,
\* or the exception for a text that is no JSON.
loads(s) == ObjectFrom(s, SkipWs(s, 1))

-----------------------------------------------------------------------------
(* The driver's methods.  A method takes the object's state st (config,    *)
(* serdev, pins, file and the trace of what was done) and yields the state *)
(* after it together with what it returns or whether it raised.            *)

\* bytes(l) raises unless every element is in range(256).
IsBytes(l) == \A i \in DOMAIN l : l[i] >= 0 /\ l[i] <= 255

\* A call of waitForDeviceIdle(timeout) at the head of its loop:
\* count = timeout//10, nothing slept and nothing printed yet.
WaitEntry(timeout) ==
    [pc |-> "loop", timeout |-> timeout, count |-> timeout \div 10, sleeps |-> 0, diag |-> FALSE]

\* One evaluation of the loop condition for the level read from AUX (1 is
\* idle, 0 is busy) and, the line being busy, one pass of the loop body: the
\* TIMEOUT print and the break when count == 0, else the 10 ms sleep and
\* count -= 1.
WaitIter(w, level) ==
    IF level = 1 THEN [w EXCEPT !.pc = "done"]
    ELSE IF w.count = 0 THEN [w EXCEPT !.pc = "done", !.diag = TRUE]
    ELSE [w EXCEPT !.sleeps = @ + 1, !.count = @ - 1]

\* The loop run to its end on a line that reads busy (0) at the next `busy`
\* readings and idle (1) at the one after them.
RECURSIVE WaitRun(_, _)
WaitRun(w, busy) ==
    IF w.pc = "done" THEN w
    ELSE WaitRun(WaitIter(w, IF busy > 0 THEN 0 ELSE 1), IF busy > 0 THEN busy - 1 ELSE 0)

\* The number of readings that find AUX busy in the wait about to start.  The
\* module drives the line while the driver polls and sleeps: st.aux holds, for
\* each wait to come in this call, how many readings are busy before one is
\* idle.  For a wait beyond those the line keeps the level last read: idle at
\* once, or busy at every one of the count + 1 readings the loop makes.
BusyPolls(st) ==
    IF st.aux # << >> THEN Head(st.aux)
    ELSE IF st.pins.aux = 1 THEN 0
    ELSE WaitEntry(200).count + 1

\* The state after a wait that ended as w: the level last read is 0 when the
\* loop broke on its count (TIMEOUT printed) and 1 otherwise.
Waited(st, w) ==
    [st EXCEPT !.pins = [@ EXCEPT !.aux = IF w.diag THEN 0 ELSE 1],
               !.aux = IF @ = << >> THEN @ ELSE Tail(@),
               !.trace = Append(@, Ev("idle", w))]

\* waitForDeviceIdle() with the default timeout of 200, as the driver's own
\* methods call it; self.AUX is None until start has run.  AUX is read anew at
\* every pass of the loop.  The event kept of it is the finished wait: the
\* number of 10 ms sleeps and whether TIMEOUT was printed.
waitForDeviceIdle(st) ==
    IF ~st.pins.made THEN [exc |-> TRUE, st |-> st]
    ELSE [exc |-> FALSE, st |-> Waited(st, WaitRun(WaitEntry(200), BusyPolls(st)))]

\* utime.sleep_ms(ms)
Sleep(st, ms) == [st EXCEPT !.trace = Append(@, Ev("sleep", ms))]

\* The writes of M0 and M1 in setOperationMode.
WritePins(st, m0, m1) ==
    [exc |-> FALSE,
     st |-> [st EXCEPT !.pins = [@ EXCEPT !.made = TRUE, !.m0 = m0, !.m1 = m1],
                       !.trace = Append(@, Ev("pins", <<m0, m1>>))]]

\* M0 written from bits[1] and M1 from bits[0].
SetPins_Swapped(st, bits) ==
    WritePins(st, PyInt(<<PyIdx(bits, 1)>>).val, PyInt(<<PyIdx(bits, 0)>>).val)

\* M0 is written from bits[0] and M1 from bits[1].
SetPins(st, bits) ==
    WritePins(st, PyInt(<<PyIdx(bits, 0)>>).val, PyInt(<<PyIdx(bits, 1)>>).val)

\* setOperationMode
\* The default '00' for every mode.
ModeBits_Default(mode) == Str(<<"0","0">>)

\* OPERMODE.get(mode, '00')
ModeBits(mode) == IF mode \in DOMAIN OPERMODE THEN OPERMODE[mode] ELSE Str(<<"0","0">>)

\* The lines left alone when the first idle wait finds the module busy.
setOperationMode_BusySkips(st, mode) ==
    IF ~st.pins.made THEN [exc |-> TRUE, st |-> st]
    ELSE IF BusyPolls(st) > 0
    THEN [exc |-> FALSE, st |-> Sleep(waitForDeviceIdle(waitForDeviceIdle(st).st).st, 50)]
    ELSE [exc |-> FALSE,
          st |-> Sleep(waitForDeviceIdle(SetPins(waitForDeviceIdle(st).st, ModeBits(mode)).st).st,
                       50)]

\* setOperationMode: the idle wait, the two writes, the second idle wait and
\* the 50 ms sleep.
setOperationMode(st, mode) ==
    IF ~st.pins.made THEN [exc |-> TRUE, st |-> st]
    ELSE [exc |-> FALSE,
          st |-> Sleep(waitForDeviceIdle(SetPins(waitForDeviceIdle(st).st, ModeBits(mode)).st).st,
                       50)]

\* The register image enc with the command code as its header.
SetFrame(enc, code, pre) ==
    [exc |-> enc.exc, val |-> IF enc.exc THEN <<>> ELSE pre \o [enc.val EXCEPT ![1] = code]]

\* The list sendCommand passes to bytes(): the register image with its header
\* replaced for the two set commands, the fixed frames of getConfig and
\* getPID, and for any other command CMDS.get(command) itself, an int n
\* (bytes(n) is n zero bytes, and list + int raises) or None (bytes(None) raises).
CommandFrame(cfg, command, wireless_cmd) ==
    IF command \in {"setConfigPwrDwnSave", "setConfigPwrDwnNoSave"}
    THEN SetFrame(encodeConfig(cfg), CMDS[command], IF wireless_cmd THEN <<207, 207>> ELSE <<>>)
    ELSE IF command = "getConfig"
    THEN [exc |-> FALSE, val |-> (IF wireless_cmd THEN <<207, 207>> ELSE <<>>) \o <<193, 0, 7>>]
    ELSE IF command = "getPID"
    THEN [exc |-> FALSE, val |-> (IF wireless_cmd THEN <<207, 207>> ELSE <<>>) \o <<193, 128, 7>>]
    ELSE IF command \in DOMAIN CMDS /\ ~wireless_cmd
    THEN [exc |-> FALSE, val |-> [i \in 1..CMDS[command] |-> 0]]
    ELSE [exc |-> TRUE, val |-> <<>>]

\* The write of the frame f and the read of the response, m being the
\* outcome of the switch to Config mode.
\* 30 ms for every command.
ResponseTime_Always30(command) == 30

\* resp_time = 200 if HexCmd in [0xC0, 0xC2] else 30
ResponseTime(command) ==
    IF command \in DOMAIN CMDS /\ CMDS[command] \in {192, 194} THEN 200 ELSE 30

\* The write of the frame f, the sleep of resp_time and the read of the
\* response, m being the outcome of the switch to Config mode.
WriteRead(m, f, resp_time, resp) ==
    IF m.exc \/ f.exc \/ ~IsBytes(f.val) \/ m.st.serdev # "open"
    THEN [st |-> m.st, ret |-> Ret("str", "NOK")]
    ELSE [st |-> [m.st EXCEPT !.trace = @ \o <<Ev("write", f.val), Ev("sleep", resp_time),
                                                Ev("read", resp)>>],
          ret |-> IF resp.none THEN Ret("None", None) ELSE Ret("bytes", resp.data)]

CommandIn(m, command, wireless_cmd, resp) ==
    WriteRead(m, CommandFrame(m.st.config, command, wireless_cmd), ResponseTime(command), resp)

\* The lines put back as they stood before the command.
sendCommand_RestoresMode(st, command, wireless_cmd, resp) ==
    [st |-> [CommandIn(setOperationMode(st, "config"), command, wireless_cmd, resp).st
                 EXCEPT !.pins = st.pins],
     ret |-> CommandIn(setOperationMode(st, "config"), command, wireless_cmd, resp).ret]

\* sendCommand: Config mode, one write of the frame, one read of the response.
\* Every exception is caught and turned into 'NOK'.
sendCommand(st, command, wireless_cmd, resp) ==
    CommandIn(setOperationMode(st, "config"), command, wireless_cmd, resp)

\* Only a missing response is taken as bad.
BadResponse_AnyLength(r) == r.kind # "bytes"

\* len(result) != 10, where len(None) raises and 'NOK' has length 3.
BadResponse(r) == r.kind # "bytes" \/ Len(r.val) # 10

\* saveConfigToJson
saveConfigToJson(st) == [st EXCEPT !.file = [saved |-> TRUE, cfg |-> st.config]]

\* loadConfigFromJson: open('E22config.json', 'r') raises when there is no
\* file; what ujson.load yields is bound to a local name and dropped, and
\* self.config is printed as it is.
loadConfigFromJson(st) ==
    IF ~st.file.saved THEN [exc |-> TRUE, st |-> st]
    ELSE [exc |-> FALSE, st |-> [st EXCEPT !.trace = Append(@, Ev("load", st.file.cfg))]]

\* setConfig after its sendCommand yielded r.
ConfigSet(r, dbg) ==
    IF BadResponse(r.ret) THEN [st |-> r.st, ret |-> Ret("str", "NOK")]
    ELSE IF dbg
    THEN [st |-> saveConfigToJson([r.st EXCEPT !.config = decodeConfig(@, r.ret.val).cfg]),
          ret |-> Ret("str", "OK")]
    ELSE [st |-> saveConfigToJson(r.st), ret |-> Ret("str", "OK")]

\* setConfig
setConfig(st, dbg, save_cmd, resp) == ConfigSet(sendCommand(st, save_cmd, FALSE, resp), dbg)

\* getConfig after its sendCommand yielded r.
ConfigGot(r) ==
    IF BadResponse(r.ret) THEN [st |-> r.st, ret |-> Ret("str", "NOK")]
    ELSE [st |-> [r.st EXCEPT !.config = decodeConfig(@, r.ret.val).cfg], ret |-> Ret("str", "OK")]

\* getConfig
getConfig(st, resp) == ConfigGot(sendCommand(st, "getConfig", FALSE, resp))

\* showPID: the product id is printed, the configuration is not touched.
showPID(st, resp) ==
    [st |-> sendCommand(st, "getPID", FALSE, resp).st,
     ret |-> IF BadResponse(sendCommand(st, "getPID", FALSE, resp).ret)
             THEN Ret("str", "NOK") ELSE Ret("str", "OK")]

\* The old mode put back in the Configuration when the persist command failed.
setTransmissionMode_RollsBack(st, dbg, transmode, resp) ==
    IF transmode = st.config["transmode"] THEN st
    ELSE IF setConfig([st EXCEPT !.config = Put(@, "transmode", transmode)],
                      dbg, "setConfigPwrDwnSave", resp).ret.val = "NOK"
    THEN [setConfig([st EXCEPT !.config = Put(@, "transmode", transmode)],
                    dbg, "setConfigPwrDwnSave", resp).st EXCEPT !.config = st.config]
    ELSE setConfig([st EXCEPT !.config = Put(@, "transmode", transmode)],
                   dbg, "setConfigPwrDwnSave", resp).st

\* The persist command sent whether or not the mode changes.
setTransmissionMode_Always(st, dbg, transmode, resp) ==
    setConfig([st EXCEPT !.config = Put(@, "transmode", transmode)],
              dbg, "setConfigPwrDwnSave", resp).st

\* setTransmissionMode
setTransmissionMode(st, dbg, transmode, resp) ==
    IF transmode # st.config["transmode"]
    THEN setConfig([st EXCEPT !.config = Put(@, "transmode", transmode)],
                   dbg, "setConfigPwrDwnSave", resp).st
    ELSE st

\* The mode sendMessage and recvMessage select for an address and a channel.
ResolveMode(cfg, address, channel) ==
    IF address = cfg["address"] /\ channel = cfg["channel"] THEN 0 ELSE 1

\* No switch to Normal mode after a change of the transmission mode.
EnterNormal_StaysInConfig(st, dbg, address, channel, resp) ==
    IF ResolveMode(st.config, address, channel) # st.config["transmode"]
    THEN [exc |-> ~st.pins.made,
          st |-> setTransmissionMode(st, dbg, ResolveMode(st.config, address, channel), resp)]
    ELSE setOperationMode(st, "normal")

\* The head of sendMessage and of recvMessage: the transmission mode is
\* selected and set, then the module is put in Normal mode.
EnterNormal(st, dbg, address, channel, resp) ==
    setOperationMode(
        setTransmissionMode(st, dbg, ResolveMode(st.config, address, channel), resp),
        "normal")

\* The destination prefix in every mode.
FrameOf_AlwaysPrefixed(cfg, to_address, to_channel, js_payload, useChecksum) ==
    <<to_address \div 256, to_address % 256, to_channel>>
    \o js_payload
    \o (IF useChecksum THEN <<ChecksumByte(js_payload).val>> ELSE <<>>)

\* msg once js_payload is made: prefix, character codes, checksum.
FrameOf(cfg, to_address, to_channel, js_payload, useChecksum) ==
    (IF cfg["transmode"] = 1
     THEN <<to_address \div 256, to_address % 256, to_channel>> ELSE <<>>)
    \o js_payload
    \o (IF useChecksum THEN <<ChecksumByte(js_payload).val>> ELSE <<>>)

\* The list msg that sendMessage builds.
BuildFrame(cfg, to_address, to_channel, items, useChecksum) ==
    FrameOf(cfg, to_address, to_channel, dumps(items), useChecksum)

\* The write of msg at the end of sendMessage, st being the state after the
\* idle wait before it.
WriteFrame(st, msg) ==
    IF ~IsBytes(msg) \/ st.serdev # "open" THEN [st |-> st, ret |-> Ret("str", "NOK")]
    ELSE [st |-> [st EXCEPT !.trace = Append(@, Ev("write", msg))], ret |-> Ret("str", "OK")]

\* The payload encoded whatever its type.
SendIn_Unchecked(m, to_address, to_channel, payload, useChecksum) ==
    IF m.exc THEN [st |-> m.st, ret |-> Ret("str", "NOK")]
    ELSE WriteFrame(waitForDeviceIdle(m.st).st,
                    BuildFrame(m.st.config, to_address, to_channel, payload.items, useChecksum))

\* sendMessage after its switch to Normal mode yielded m; payload is [isdict, items].
SendIn(m, to_address, to_channel, payload, useChecksum) ==
    IF m.exc THEN [st |-> m.st, ret |-> Ret("str", "NOK")]
    ELSE IF ~payload.isdict THEN [st |-> m.st, ret |-> Ret("str", "NOK")]
    ELSE WriteFrame(waitForDeviceIdle(m.st).st,
                    BuildFrame(m.st.config, to_address, to_channel, payload.items, useChecksum))

\* The payload checked before anything else is done.
sendMessage_ChecksFirst(st, dbg, to_address, to_channel, payload, useChecksum, resp) ==
    IF ~payload.isdict THEN [st |-> st, ret |-> Ret("str", "NOK")]
    ELSE SendIn(EnterNormal(st, dbg, to_address, to_channel, resp),
                to_address, to_channel, payload, useChecksum)

\* sendMessage
sendMessage(st, dbg, to_address, to_channel, payload, useChecksum, resp) ==
    SendIn(EnterNormal(st, dbg, to_address, to_channel, resp),
           to_address, to_channel, payload, useChecksum)

\* The RSSI byte taken as it is.
RssiOf_Unsigned(v) == v

\* The dBm value of the RSSI byte.
RssiOf(v) == 0 - (256 - v)

\* 'corrupt message, checksum ' + str(cs)
CorruptText(cs) ==
    Str(<<"c","o","r","r","u","p","t"," ","m","e","s","s","a","g","e",","," ",
          "c","h","e","c","k","s","u","m"," ">>) \o PyStr(cs)

KeyMsg == Str(<<"m","s","g">>)
KeyRssi == Str(<<"r","s","s","i">>)

\* The dict { 'msg': m, 'rssi': r }.
MsgRssi(m, r) == Put(Put(<< >>, KeyMsg, m), KeyRssi, r)

\* The text recvMessage appends in place of the last character of the message.
RssiSuffix(rssi) ==
    IF rssi.t = "i"
    THEN Str(<<",","\"","r","s","s","i","\"",":">>) \o PyStr(rssi.i) \o Str(<<"}">>)
    ELSE Str(<<",","\"","r","s","s","i","\"",":"," ","n","u","l","l"," ","}">>)

\* ujson.loads of the text, and what recvMessage returns for it.
ParseText(text, parsed) ==
    [ret |-> IF parsed.exc THEN Ret("str", "NOK") ELSE Ret("dict", parsed.val),
     parse |-> <<Ev("loads", text)>>]

SpliceRssi(text) == ParseText(text, loads(text))

\* The body parsed whatever its checksum.
CheckBody_Unchecked(body, rssi, useChecksum, cs) ==
    SpliceRssi(PyDropLast(IF useChecksum THEN PyDropLast(body) ELSE body)
               \o RssiSuffix(rssi))

\* The checksum check on the message body, cs being its checksum.
CheckBody(body, rssi, useChecksum, cs) ==
    IF useChecksum /\ cs # 0
    THEN [ret |-> Ret("dict", MsgRssi(StrVal(CorruptText(cs)), rssi)), parse |-> <<>>]
    ELSE SpliceRssi(PyDropLast(IF useChecksum THEN PyDropLast(body) ELSE body)
                    \o RssiSuffix(rssi))

\* The message body (the bytes without the RSSI byte) and the RSSI value.
DecodeBody(body, rssi, useChecksum) ==
    CheckBody(body, rssi, useChecksum, IF useChecksum THEN ChecksumByte(body).val ELSE 0)

\* The part of recvMessage that follows a read that returned bytes: the value
\* returned, and the text given to ujson.loads when that step is reached.
DecodeMessage(cfg, js_payload, useChecksum) ==
    IF cfg["rssi"] # 0
    THEN (IF js_payload = <<>> THEN [ret |-> Ret("str", "NOK"), parse |-> <<>>]
          ELSE DecodeBody(PyDropLast(js_payload), IntVal(RssiOf(PyLast(js_payload))),
                          useChecksum))
    ELSE DecodeBody(js_payload, NullVal, useChecksum)

\* The end of recvMessage: what is returned for the data read.
Received(st, d) == [st |-> [st EXCEPT !.trace = @ \o d.parse], ret |-> d.ret]

\* No test for None: the decoding is entered and raises.
RecvIn_NoneDecoded(m, useChecksum, data) ==
    IF m.exc \/ m.st.serdev # "open" THEN [st |-> m.st, ret |-> Ret("str", "NOK")]
    ELSE IF data.none
    THEN [st |-> [m.st EXCEPT !.trace = Append(@, Ev("read", data))], ret |-> Ret("str", "NOK")]
    ELSE Received([m.st EXCEPT !.trace = Append(@, Ev("read", data))],
                  DecodeMessage(m.st.config, data.data, useChecksum))

\* recvMessage after its switch to Normal mode yielded m; data is what the
\* single read of the stream returns.
RecvIn(m, useChecksum, data) ==
    IF m.exc \/ m.st.serdev # "open" THEN [st |-> m.st, ret |-> Ret("str", "NOK")]
    ELSE IF data.none
    THEN [st |-> [m.st EXCEPT !.trace = Append(@, Ev("read", data))],
          ret |-> Ret("dict", MsgRssi(NullVal, NullVal))]
    ELSE Received([m.st EXCEPT !.trace = Append(@, Ev("read", data))],
                  DecodeMessage(m.st.config, data.data, useChecksum))

\* recvMessage
recvMessage(st, dbg, from_address, from_channel, useChecksum, resp, data) ==
    RecvIn(EnterNormal(st, dbg, from_address, from_channel, resp), useChecksum, data)

\* if <the value of k is not acceptable>: self.config[k] = v
Default(cfg, k, ok, v) == IF ok THEN cfg ELSE Put(cfg, k, v)

\* The checks at the head of start; each reads the key it may replace.
Sanitize(cfg) ==
    Default(Default(Default(Default(Default(cfg,
        "port", cfg["port"] \in {"U0", "U1", "U2", "U3"}, "U1"),
        "baudrate", cfg["baudrate"] \in DOMAIN BAUDRATE, 9600),
        "parity", cfg["parity"] \in DOMAIN PARSTR, "8N1"),
        "datarate", cfg["datarate"] \in DOMAIN DATARATE, "2.4k"),
        "channel", cfg["channel"] <= 31, 31)

\* The parity bit of the Configuration's parity passed on to the UART.
UartParity_FromConfig(cfg) ==
    IF cfg["parity"] = "8E1" THEN Ret("int", 0)
    ELSE IF cfg["parity"] = "8O1" THEN Ret("int", 1)
    ELSE Ret("None", None)

\* The parity argument of UART(...) in start: the literal None; par, looked
\* up in PARBIT the line before, is not used.
UartParity(cfg) == Ret("None", None)

\* UART(port, baudrate=self.config['baudrate'], bits=8, parity=None, stop=1)
OpenUart(st) ==
    [st EXCEPT !.serdev = "open",
               !.trace = Append(@, Ev("uart", [baudrate |-> st.config["baudrate"],
                                               parity |-> UartParity(st.config)]))]

\* start: the UART and the three Pin objects are made, the module is put in
\* Config mode and the configuration is written to it.
start(st, dbg, resp) ==
    [st |-> setConfig(waitForDeviceIdle(
                          setOperationMode(OpenUart([st EXCEPT !.config = Sanitize(@),
                                                               !.pins = [@ EXCEPT !.made = TRUE]]),
                                           "config").st).st,
                      dbg, "setConfigPwrDwnSave", resp).st,
     ret |-> Ret("str", "OK")]

\* start on a Configuration whose baudrate is a text that int() rejects: the
\* port has been checked when int(self.config['baudrate']) raises, and the
\* except branch returns 'NOK'.
startNoNumber(st) ==
    [st |-> [st EXCEPT !.config = Default(@, "port", @["port"] \in {"U0", "U1", "U2", "U3"},
                                          "U1")],
     ret |-> Ret("str", "NOK")]

\* stop without its try: the AttributeError of a second stop reaches the caller.
stop_Unguarded(st) ==
    IF st.serdev = "deleted" THEN [st |-> st, ret |-> Ret("raise", None)]
    ELSE IF st.serdev = "open" THEN [st |-> [st EXCEPT !.serdev = "deleted"], ret |-> Ret("str", "OK")]
    ELSE [st |-> st, ret |-> Ret("str", "OK")]

\* stop that leaves the stream as it is.
stop_KeepsStream(st) ==
    IF st.serdev = "deleted" THEN [st |-> st, ret |-> Ret("str", "NOK")]
    ELSE [st |-> st, ret |-> Ret("str", "OK")]

\* stop: deinit and del self.serdev; a second stop finds no attribute serdev.
stop(st) ==
    IF st.serdev = "deleted" THEN [st |-> st, ret |-> Ret("str", "NOK")]
    ELSE IF st.serdev = "open" THEN [st |-> [st EXCEPT !.serdev = "deleted"], ret |-> Ret("str", "OK")]
    ELSE [st |-> st, ret |-> Ret("str", "OK")]

-----------------------------------------------------------------------------
(* Bounds and the values the operations are called with                    *)

\* Longest payload dict (number of items) of the message specification.
MaxItems == 2

\* Longest text given to calcChecksum in the checksum specification.
MaxLen == 3

Keys == { Str(<<"a">>), Str(<<"b">>), KeyMsg }
Values == { IntVal(7), StrVal(Str(<<"H","I">>)) }

\* The payload dicts of at most n items.
RECURSIVE ItemSeqs(_)
ItemSeqs(n) ==
    IF n = 0 THEN { <<>> }
    ELSE LET shorter == ItemSeqs(n - 1)
         IN  shorter \cup
             { Append(p, <<k, v>>) :
                 p \in { q \in shorter : Len(q) = n - 1 },
                 k \in Keys, v \in Values }

DistinctKeys(p) == \A i, j \in DOMAIN p : i # j => p[i][1] # p[j][1]

Payloads(n) == { [isdict |-> TRUE, items |-> p] : p \in { q \in ItemSeqs(n) : DistinctKeys(q) } }

\* A payload that is no dict (a str, say).
NotADict == [isdict |-> FALSE, items |-> <<>>]

\* Byte values used where any byte may occur.
ByteSamples == {0, 1, 15, 16, 127, 128, 240, 255}

\* A 10-byte inbound data frame: the text {"a":123} followed by the RSSI byte 176.
Noise10Rssi == Str(<<"{","\"","a","\"",":","1","2","3","}">>) \o <<176>>

\* The response of a module that answers a set command for cfg: the register
\* image with the header 0xC1.
Echo(cfg) ==
    LET enc == encodeConfig(cfg)
    IN  IF enc.exc THEN ReadNone ELSE ReadBytes([enc.val EXCEPT ![1] = 193])

\* What the read after a set command for cfg may return: nothing or the
\* module's answer, and on a noisy stream also a cut answer or a data frame
\* buffered on the stream.
Responses(noisy, cfg) ==
    { ReadNone, Echo(cfg) } \cup
    (IF noisy THEN { ReadBytes(<<193, 0, 7>>), ReadBytes(Noise10Rssi) } ELSE {})

\* How the module may drive AUX during a call, as the busy readings of each
\* wait in turn: the line keeps its level; busy at the first two readings of
\* the first wait; busy at five; busy for the whole first wait (21 readings)
\* and idle from then on; idle in the first wait and busy at three readings of
\* the second (after M0 and M1 changed).
AuxReads == { << >>, <<2>>, <<5>>, <<21, 0>>, <<0, 3>> }

\* The line keeps its level, or the module becomes idle during the first wait.
AuxBrief == { << >>, <<2>> }

\* The line keeps its level.
AuxHeld == { << >> }

-----------------------------------------------------------------------------
(* Actions                                                                 *)

\* The object as a call finds it, the line AUX keeping its level during the
\* call.
St == [config |-> config, serdev |-> serdev, pins |-> pins, file |-> file, trace |-> <<>>,
       aux |-> << >>]

\* The object as a call finds it, the module driving AUX during the call as
\* busy tells: the busy readings of each wait to come.
StAux(busy) == [St EXCEPT !.aux = busy]

\* The state after an operation that yields r = [st, ret], the module having
\* driven AUX during the call as busy tells.
ApplyAux(r, busy, op, args) ==
    /\ config' = r.st.config
    /\ serdev' = r.st.serdev
    /\ pins' = r.st.pins
    /\ file' = r.st.file
    /\ trace' = r.st.trace
    /\ ret' = r.ret
    /\ last' = Call(op, StAux(busy), args)
    /\ UNCHANGED <<debug, input, wait>>

\* The state after an operation that reads no line.
Apply(r, op, args) == ApplyAux(r, << >>, op, args)

NoFile == [saved |-> FALSE, cfg |-> << >>]
NoPins == [made |-> FALSE, m0 |-> 0, m1 |-> 0, aux |-> 1]

\* No call of waitForDeviceIdle by the caller is in progress.
NoWait == [pc |-> "none", timeout |-> 0, count |-> 0, sleeps |-> 0, diag |-> FALSE]

\* The state after the constructor, for a config it built.
Constructed(cfg, dbg) ==
    /\ config = cfg
    /\ debug = dbg
    /\ serdev = None
    /\ pins = NoPins
    /\ file = NoFile
    /\ trace = <<>>
    /\ ret = Ret("None", None)
    /\ last = Call("init", << >>, << >>)
    /\ wait = NoWait

EncodeConfigOp ==
    LET e == encodeConfig(config)
    IN  Apply([st |-> St, ret |-> IF e.exc THEN Ret("raise", None) ELSE Ret("bytes", e.val)],
              "encodeConfig", << >>)

DecodeConfigOp(messages) ==
    \E m \in messages :
        LET d == decodeConfig(config, m)
        IN  Apply([st |-> [St EXCEPT !.config = d.cfg],
                   ret |-> IF d.exc THEN Ret("raise", None) ELSE Ret("None", None)],
                  "decodeConfig", [message |-> m])

\* calls: the texts called with, each marked as to whether it is a text
\* followed by the checksum byte that an earlier call gave for it.
CalcChecksumOp(calls) ==
    \E c \in calls :
        Apply([st |-> St, ret |-> Ret("text", calcChecksum(c.text))], "calcChecksum",
              [payload |-> c.text, appended |-> c.appended])

StartOp(noisy, reads) ==
    \E resp \in Responses(noisy, Sanitize(config)), b \in reads :
        ApplyAux(start(StAux(b), debug, resp), b, "start", << >>)

\* start on a driver whose constructor was given a text for Baudrate, the
\* text being none that int() takes for a number.
StartTextOp ==
    /\ input.Baudrate.kind = "str"
    /\ PyInt(input.Baudrate.val).exc
    /\ Apply(startNoNumber(St), "start", << >>)

StopOp == Apply(stop(St), "stop", << >>)

\* The caller calls saveConfigToJson().
SaveConfigToJsonOp ==
    Apply([st |-> saveConfigToJson(St), ret |-> Ret("None", None)], "saveConfigToJson", << >>)

\* The caller calls calcFrequency().
CalcFrequencyOp ==
    Apply([st |-> [St EXCEPT !.config = calcFrequency(@)], ret |-> Ret("None", None)],
          "calcFrequency", << >>)

\* What the read after the set command of setTransmissionMode may return in a
\* call for the (address, channel) pair d; no such read is made when the mode
\* stays as it is.
ReadsOnSwitch(cfg, d, noisy) ==
    IF ResolveMode(cfg, d[1], d[2]) # cfg["transmode"]
    THEN Responses(noisy, Put(cfg, "transmode", ResolveMode(cfg, d[1], d[2])))
    ELSE { ReadNone }

\* The caller calls setTransmissionMode(transmode); the stream is read when
\* the mode changes.
SetTransmissionModeOp(modes, noisy, reads) ==
    \E t \in modes, b \in reads :
        \E resp \in IF t # config["transmode"] THEN Responses(noisy, Put(config, "transmode", t))
                    ELSE { ReadNone } :
            ApplyAux([st |-> setTransmissionMode(StAux(b), debug, t, resp),
                      ret |-> Ret("None", None)],
                     b, "setTransmissionMode", [transmode |-> t, resp |-> resp])

\* dests: the (address, channel) pairs called with.
SendMessageOp(dests, payloads, flags, noisy, reads) ==
    \E d \in dests, p \in payloads, cs \in flags, b \in reads :
        \E resp \in ReadsOnSwitch(config, d, noisy) :
            ApplyAux(sendMessage(StAux(b), debug, d[1], d[2], p, cs, resp), b, "sendMessage",
                  [address |-> d[1], channel |-> d[2], payload |-> p, useChecksum |-> cs])

\* frames: what the read of the stream may return, each with the payload it
\* was made from.
RecvMessageOp(dests, frames, flags, noisy, reads) ==
    \E d \in dests, cs \in flags, f \in frames, b \in reads :
        \E resp \in ReadsOnSwitch(config, d, noisy) :
            ApplyAux(recvMessage(StAux(b), debug, d[1], d[2], cs, resp, f.read), b, "recvMessage",
                  [address |-> d[1], channel |-> d[2], useChecksum |-> cs,
                   data |-> f.read, src |-> f.src])

\* images: further 10-byte answers the module may give.
GetConfigOp(noisy, images, reads) ==
    \E resp \in Responses(noisy, config) \cup { ReadBytes(m) : m \in images }, b \in reads :
        ApplyAux(getConfig(StAux(b), resp), b, "getConfig", [resp |-> resp])

SetConfigOp(noisy, reads) ==
    \E cmd \in {"setConfigPwrDwnSave", "setConfigPwrDwnNoSave"}, resp \in Responses(noisy, config) :
        \E b \in reads :
            ApplyAux(setConfig(StAux(b), debug, cmd, resp), b, "setConfig",
                     [save_cmd |-> cmd, resp |-> resp])

ShowPIDOp(noisy, reads) ==
    \E resp \in Responses(noisy, config), b \in reads :
        ApplyAux(showPID(StAux(b), resp), b, "showPID", [resp |-> resp])

SendCommandOp(commands, noisy, reads) ==
    \E cmd \in commands, w \in BOOLEAN, resp \in Responses(noisy, config), b \in reads :
        ApplyAux(sendCommand(StAux(b), cmd, w, resp), b, "sendCommand",
              [command |-> cmd, wireless_cmd |-> w, resp |-> resp])

SetOperationModeOp(modes, reads) ==
    \E mode \in modes, b \in reads :
        LET r == setOperationMode(StAux(b), mode)
        IN  ApplyAux([st |-> r.st, ret |-> IF r.exc THEN Ret("raise", None) ELSE Ret("None", None)],
                     b, "setOperationMode", [mode |-> mode])

\* The first ten of the buffered bytes, the others left on the stream.
StreamRead_TenBytes(buf) ==
    [resp |-> IF buf = << >> THEN ReadNone
              ELSE ReadBytes(SubSeq(buf, 1, IF Len(buf) < 10 THEN Len(buf) ELSE 10)),
     left |-> SubSeq(buf, 11, Len(buf))]

\* self.serdev.read() on a stream that holds the bytes buf: all of them, None
\* when there is none, and nothing is left on the stream.
StreamRead(buf) ==
    [resp |-> IF buf = << >> THEN ReadNone ELSE ReadBytes(buf), left |-> << >>]

\* A call for the (address, channel) pair d sends the persist command and
\* reads its response.
CommandReads(st, dbg, d) ==
    \E j \in DOMAIN EnterNormal(st, dbg, d[1], d[2], ReadNone).st.trace :
        EnterNormal(st, dbg, d[1], d[2], ReadNone).st.trace[j].ev = "write"

\* recvMessage on a stream that holds buf at the call, the module answering
\* a persist command with ans.  The driver sleeps between its steps and bytes
\* arrive meanwhile: mid behind the answer, before the read of the response
\* (the 200 ms sleep of sendCommand), and late between that read and the read
\* of the data (the waits and the 50 ms sleep of setOperationMode).  The read
\* of the response takes all that is on the stream then, the read of the data
\* what came after it; without a persist command the one read takes it all.
RecvStream(st, dbg, d, cs, buf, ans, mid, late) ==
    IF CommandReads(st, dbg, d)
    THEN [r |-> recvMessage(st, dbg, d[1], d[2], cs, StreamRead(buf \o ans \o mid).resp,
                            StreamRead(StreamRead(buf \o ans \o mid).left \o late).resp),
          left |-> StreamRead(StreamRead(buf \o ans \o mid).left \o late).left]
    ELSE [r |-> recvMessage(st, dbg, d[1], d[2], cs, ReadNone, StreamRead(buf \o mid \o late).resp),
          left |-> StreamRead(buf \o mid \o late).left]

\* sendMessage on such a stream; it reads only for a persist command, and
\* what arrives after that read stays on the stream.
SendStream(st, dbg, d, p, cs, buf, ans, mid, late) ==
    IF CommandReads(st, dbg, d)
    THEN [r |-> sendMessage(st, dbg, d[1], d[2], p, cs, StreamRead(buf \o ans \o mid).resp),
          left |-> StreamRead(buf \o ans \o mid).left \o late]
    ELSE [r |-> sendMessage(st, dbg, d[1], d[2], p, cs, ReadNone), left |-> buf \o mid \o late]

\* The state after a call that yields o.r = [st, ret] and leaves o.left on
\* the stream.
ApplyStream(o, busy, op, args) ==
    /\ config' = o.r.st.config
    /\ serdev' = o.r.st.serdev
    /\ pins' = o.r.st.pins
    /\ file' = o.r.st.file
    /\ trace' = o.r.st.trace
    /\ ret' = o.r.ret
    /\ last' = Call(op, StAux(busy), args)
    /\ input' = [input EXCEPT !.buffer = o.left]
    /\ UNCHANGED <<debug, wait>>

\* The bytes a module sends for a persist command for cfg, none when it is
\* silent.
Answers(cfg) == { << >> } \cup (IF Echo(cfg).none THEN {} ELSE { Echo(cfg).data })

AnswersOnSwitch(cfg, d) == Answers(Put(cfg, "transmode", ResolveMode(cfg, d[1], d[2])))

\* An inbound data frame arrives on the empty stream of a started driver.
ArriveOp(frames) ==
    /\ input.buffer = << >>
    /\ \E f \in frames : input' = [input EXCEPT !.buffer = f]
    /\ last' = Call("arrive", St, [frame |-> input'.buffer])
    /\ trace' = << >>
    /\ UNCHANGED <<config, debug, serdev, pins, file, ret, wait>>

\* frames: what may arrive during a call, one frame at most: none, one
\* before the read of the response or one after it.
Arrivals(frames) ==
    { [mid |-> << >>, late |-> << >>] } \cup
    { [mid |-> f, late |-> << >>] : f \in frames } \cup
    { [mid |-> << >>, late |-> f] : f \in frames }

RecvStreamOp(dests, frames, reads) ==
    \E d \in dests, a \in Arrivals(frames), b \in reads : \E ans \in AnswersOnSwitch(config, d) :
        ApplyStream(RecvStream(StAux(b), debug, d, FALSE, input.buffer, ans, a.mid, a.late),
                    b, "recvMessage",
                    [address |-> d[1], channel |-> d[2], useChecksum |-> FALSE,
                     buffered |-> input.buffer, answer |-> ans, mid |-> a.mid, late |-> a.late])

\* A sendMessage that reads nothing is followed on a stream that holds at
\* most one frame.
SendStreamOp(dests, payloads, frames, reads) ==
    \E d \in dests, p \in payloads, b \in reads :
        \E ans \in AnswersOnSwitch(config, d),
           a \in Arrivals(IF input.buffer = << >> \/ CommandReads(St, debug, d)
                          THEN frames ELSE {}) :
            ApplyStream(SendStream(StAux(b), debug, d, p, FALSE, input.buffer, ans, a.mid, a.late),
                        b, "sendMessage",
                        [address |-> d[1], channel |-> d[2], payload |-> p, useChecksum |-> FALSE,
                         buffered |-> input.buffer, answer |-> ans, mid |-> a.mid,
                         late |-> a.late])

\* The caller calls loadConfigFromJson().
LoadConfigFromJsonOp ==
    Apply([st |-> loadConfigFromJson(St).st,
           ret |-> IF loadConfigFromJson(St).exc THEN Ret("raise", None) ELSE Ret("None", None)],
          "loadConfigFromJson", << >>)

\* The caller calls waitForDeviceIdle(timeout) on a started driver.
WaitCallOp(timeouts) ==
    /\ pins.made
    /\ wait.pc # "loop"
    /\ \E t \in timeouts : wait' = WaitEntry(t)
    /\ last' = Call("waitForDeviceIdle", St, [timeout |-> wait'.timeout])
    /\ trace' = <<>>
    /\ UNCHANGED <<config, debug, serdev, pins, file, ret, input>>

\* One reading of AUX by the loop, the line being at any level, and what
\* follows it; the number of sleeps followed is cut at maxSleeps.
WaitPollOp(maxSleeps) ==
    /\ wait.pc = "loop"
    /\ wait.sleeps < maxSleeps
    /\ \E level \in {0, 1} :
           /\ pins' = [pins EXCEPT !.aux = level]
           /\ wait' = WaitIter(wait, level)
    /\ trace' = IF wait'.pc = "done" THEN <<Ev("idle", wait')>> ELSE trace
    /\ ret' = Ret("None", None)
    /\ UNCHANGED <<config, debug, serdev, file, input, last>>

\* The module drives the AUX line: busy (0) or idle (1).
AuxOp ==
    /\ \E level \in {0, 1} : pins' = [pins EXCEPT !.aux = level]
    /\ UNCHANGED <<config, debug, serdev, file, trace, ret, input, last, wait>>

-----------------------------------------------------------------------------
(* Frames read by recvMessage                                              *)

\* What the module delivers of a frame sendMessage wrote in fixed mode for the
\* payload p: the frame without its 3-byte destination prefix.
Wire(p, useChecksum) ==
    PyFrom(BuildFrame(Put(DefaultConfig, "transmode", 1), 3, 4, p.items, useChecksum), 3)

Frame(data, kind, p, useChecksum, rssi) ==
    [read |-> ReadBytes(data),
     src |-> [kind |-> kind, payload |-> p, useChecksum |-> useChecksum, rssi |-> rssi]]

NoFrame == [read |-> ReadNone,
            src |-> [kind |-> "none", payload |-> NotADict, useChecksum |-> FALSE, rssi |-> FALSE]]

\* The frames delivered for the payloads ps, each as sent and with an RSSI byte.
ValidFrames(ps) ==
    { Frame(Wire(p, cs), "valid", p, cs, FALSE) : p \in ps, cs \in BOOLEAN }
    \cup { Frame(Append(Wire(p, cs), r), "valid", p, cs, TRUE) :
             p \in ps, cs \in BOOLEAN, r \in {0, 240, 255} }

\* The checksummed frames for the payloads ps with one byte of the JSON text or
\* of the checksum replaced, each as such and with an RSSI byte.
CorruptFrames(ps) ==
    UNION { UNION { { Frame([Wire(p, TRUE) EXCEPT ![i] = v], "corrupt", p, TRUE, FALSE),
                      Frame(Append([Wire(p, TRUE) EXCEPT ![i] = v], 240), "corrupt", p, TRUE, TRUE) } :
                    v \in { (Wire(p, TRUE)[i] + 1) % 256, 255 - Wire(p, TRUE)[i] } } :
            <<p, i>> \in { x \in ps \X (1..24) : x[2] <= Len(Wire(x[1], TRUE)) } }

-----------------------------------------------------------------------------
(* Specifications                                                          *)

\* The driver: start, stop, sendMessage, recvMessage, getConfig, setConfig,
\* showPID, sendCommand, setTransmissionMode, saveConfigToJson and
\* calcFrequency, from the state after the constructor called with a channel
\* within the module's range (debug off or on) or above it.  The codec, the
\* checksum, the mode switch, the idle wait and loadConfigFromJson have
\* specifications of their own below.
Init ==
    /\ input = [kind |-> "none"]
    /\ \E a \in { <<2, FALSE>>, <<2, TRUE>>, <<40, FALSE>> } :
           Constructed(Construct("900T22D", "U2", 9600, "8N1", "2.4k", 1, 0, a[1], 0, 0,
                                 "22dBm"), a[2])

HelloPayload == [isdict |-> TRUE, items |-> << <<KeyMsg, StrVal(Str(<<"H","I">>))>> >>]

Next ==
    \/ StartOp(TRUE, AuxHeld)
    \/ StopOp
    \/ SendMessageOp({ <<1, 2>>, <<3, 4>> }, { HelloPayload }, {TRUE}, FALSE, AuxBrief)
    \/ RecvMessageOp({ <<3, 4>> },
                     { NoFrame, Frame(Wire(HelloPayload, TRUE), "valid", HelloPayload, TRUE, FALSE) },
                     {TRUE}, FALSE, AuxHeld)
    \/ GetConfigOp(FALSE, {}, AuxHeld)
    \/ SetConfigOp(FALSE, AuxHeld)
    \/ ShowPIDOp(FALSE, AuxHeld)
    \/ SendCommandOp({"getVersion"}, FALSE, AuxHeld)
    \/ SetTransmissionModeOp({0, 1}, FALSE, AuxHeld)
    \/ SaveConfigToJsonOp
    \/ CalcFrequencyOp

Spec == Init /\ [][Next]_vars

-----------------------------------------------------------------------------
\* The state after the constructor and a start that the module answered.
Started(cfg, dbg) ==
    LET st0 == [config |-> cfg, serdev |-> None, pins |-> NoPins, file |-> NoFile,
                trace |-> <<>>, aux |-> << >>]
        r == start(st0, dbg, Echo(Sanitize(cfg)))
    IN  /\ config = r.st.config
        /\ debug = dbg
        /\ serdev = r.st.serdev
        /\ pins = r.st.pins
        /\ file = r.st.file
        /\ trace = r.st.trace
        /\ ret = r.ret
        /\ last = Call("start", st0, << >>)
        /\ wait = NoWait

\* The message path: sendMessage and recvMessage on a started driver, the
\* caller holding one destination, the checksum flag and one payload, or one
\* source, the flag and the frame that the stream will deliver.
MsgFrames == { NoFrame } \cup ValidFrames(Payloads(MaxItems)) \cup CorruptFrames(Payloads(1))

InitMsg ==
    /\ \E RSSI \in {0, 1}, dbg \in BOOLEAN :
           Started(Construct("900T22D", "U2", 9600, "8N1", "2.4k", 1, 0, 2, 0, RSSI, "22dBm"),
                   dbg)
    /\ \/ \E d \in { <<1, 2>>, <<3, 4>>, <<65535, 4>> },
                p \in Payloads(MaxItems) \cup { NotADict }, cs \in BOOLEAN :
              input = [kind |-> "send", dest |-> d, useChecksum |-> cs, payload |-> p]
       \/ \E d \in { <<1, 2>>, <<3, 4>> }, f \in MsgFrames, cs \in BOOLEAN :
              input = [kind |-> "recv", dest |-> d, useChecksum |-> cs, frame |-> f]

NextMsg ==
    \/ /\ input.kind = "send"
       /\ SendMessageOp({input.dest}, {input.payload}, {input.useChecksum}, TRUE, AuxBrief)
    \/ /\ input.kind = "recv"
       /\ RecvMessageOp({input.dest}, {input.frame}, {input.useChecksum}, TRUE, AuxHeld)

SpecMsg == InitMsg /\ [][NextMsg]_vars

-----------------------------------------------------------------------------
\* The register image: encodeConfig and decodeConfig on the configurations a
\* caller can set up, the caller holding a 10-byte image read from a module.
BaseConfig == Construct("900T22D", "U2", 9600, "8N1", "2.4k", 1, 0, 2, 0, 0, "22dBm")

\* Every setting of the fields of REG0, of REG1 (with and without a sub-packet
\* field), of REG3, and of address, netid and channel.
CodecConfigs ==
    { Put(Put(Put(BaseConfig, "baudrate", b), "parity", p), "datarate", d) :
        b \in DOMAIN BAUDRATE, p \in DOMAIN PARSTR, d \in DOMAIN DATARATE }
    \cup { Put(Put(BaseConfig, "amb_noise", n), "txpower", t) : n \in {0, 1}, t \in 0..3 }
    \cup { Put(Put(Put(BaseConfig, "amb_noise", n), "txpower", t), "subpckt", sp) :
             n \in {0, 1}, t \in 0..3, sp \in 0..3 }
    \cup { Put(Put(Put(Put(Put(Put(BaseConfig, "rssi", r), "transmode", t), "repeater", rp),
                       "lbt", l), "worctrl", w), "wutime", u) :
             r \in {0, 1}, t \in {0, 1}, rp \in {0, 1}, l \in {0, 1}, w \in {0, 1}, u \in 0..7 }
    \cup { Construct("900T22D", "U2", 9600, "8N1", "2.4k", a, n, c, 0, 0, "22dBm") :
             a \in {0, 1, 255, 256, 57005, 65535}, n \in {0, 170, 255}, c \in 0..31 }

\* Images a module may answer with: one with every register bit set, and a cut one.
ImageSamples == { <<193, 0, 7, 255, 255, 255, 255, 255, 31, 255>>,
                  <<193, 0, 7, 0, 3, 0, 98>> }

InitCodec ==
    /\ \E cfg \in CodecConfigs : Constructed(cfg, FALSE)
    /\ \E m \in ImageSamples : input = [kind |-> "image", message |-> m]

\* decodeConfig is called with the image held, or with the list that the
\* encodeConfig call before it returned.
NextCodec ==
    \/ EncodeConfigOp
    \/ DecodeConfigOp({ input.message } \cup
                      (IF last.op = "encodeConfig" /\ ret.kind = "bytes" THEN { ret.val } ELSE {}))

SpecCodec == InitCodec /\ [][NextCodec]_vars

-----------------------------------------------------------------------------
\* The checksum: calcChecksum on the text the caller holds, and on that text
\* followed by the checksum byte the call before gave for it.
RECURSIVE Texts(_)
Texts(n) ==
    IF n = 0 THEN { <<>> }
    ELSE LET shorter == Texts(n - 1)
         IN  shorter \cup { Append(t, b) : t \in { u \in shorter : Len(u) = n - 1 },
                                           b \in ByteSamples }

InitChecksum ==
    /\ Constructed(DefaultConfig, FALSE)
    /\ \E t \in Texts(MaxLen) : input = [kind |-> "text", text |-> t]

NextChecksum ==
    CalcChecksumOp({ [text |-> input.text, appended |-> FALSE] } \cup
                   (IF last.op = "calcChecksum" /\ ~last.args.appended
                    THEN { [text |-> Append(input.text, ParseInt(ret.val, 16).val),
                            appended |-> TRUE] }
                    ELSE {}))

SpecChecksum == InitChecksum /\ [][NextChecksum]_vars

-----------------------------------------------------------------------------
\* The command path: the commands on a started driver, the module answering,
\* staying silent, answering short or with the bytes of a data frame, and
\* answering getConfig with a 10-byte image whose REG0 is 0xFF: the parity
\* field (register bits 4..3) holds binary 11.

InitCmd ==
    /\ input = [kind |-> "none"]
    /\ \E dbg \in BOOLEAN : Started(BaseConfig, dbg)

NextCmd ==
    \/ SendCommandOp({"setConfigPwrDwnSave", "setConfigPwrDwnNoSave", "getConfig", "getPID",
                      "getVersion", "reset"}, TRUE, AuxBrief)
    \/ GetConfigOp(TRUE, { <<193, 0, 7, 0, 1, 0, 255, 0, 2, 3>> }, AuxBrief)
    \/ SetConfigOp(TRUE, AuxReads)
    \/ ShowPIDOp(TRUE, AuxBrief)

SpecCmd == InitCmd /\ [][NextCmd]_vars

\* The constructor's arguments: the caller gives a port, a baudrate (a number
\* or a text), a parity, an air data rate and a transmit power, in and out of
\* the tables, then calls start.
BaudrateArgs ==
    { Ret("int", 9600), Ret("int", 115200), Ret("int", 1234),
      Ret("str", Str(<<"a","u","t","o">>)) }

InitStart ==
    \E Port \in {"U2", "U9"}, Baudrate \in BaudrateArgs, Parity \in {"8N1", "8O1", "8E1", "7E1"},
       AirDataRate \in {"2.4k", "9.6k", "5k"},
       TXpower \in {"22dBm", "17dBm", "13dBm", "10dBm", "30dBm"}, dbg \in BOOLEAN :
        /\ input = [kind |-> "init", Port |-> Port, Baudrate |-> Baudrate, Parity |-> Parity,
                    AirDataRate |-> AirDataRate, TXpower |-> TXpower]
        /\ Constructed(Construct("900T22D", Port, Baudrate.val, Parity, AirDataRate, 1, 0, 2, 0,
                                  0, TXpower), dbg)

NextStart ==
    \/ /\ input.Baudrate.kind = "int"
       /\ StartOp(TRUE, AuxBrief)
    \/ StartTextOp

SpecStart == InitStart /\ [][NextStart]_vars

\* The stream: data frames arrive on the stream of a started driver between
\* the calls of recvMessage and sendMessage and during them.
InitStream ==
    /\ input = [kind |-> "stream", buffer |-> << >>]
    /\ \E dbg \in BOOLEAN : Started(BaseConfig, dbg)

NextStream ==
    \/ ArriveOp({ Wire(HelloPayload, FALSE), Noise10Rssi })
    \/ RecvStreamOp({ <<1, 2>>, <<3, 4>> }, { Wire(HelloPayload, FALSE) }, AuxBrief)
    \/ SendStreamOp({ <<1, 2>>, <<3, 4>> }, { HelloPayload }, { Wire(HelloPayload, FALSE) },
                    AuxBrief)

SpecStream == InitStream /\ [][NextStream]_vars

\* The persistence file: setConfig, which writes it, getConfig, which
\* changes the Configuration in memory, and loadConfigFromJson.
NextFile ==
    \/ SetConfigOp(TRUE, AuxBrief)
    \/ GetConfigOp(TRUE, { <<193, 0, 7, 0, 1, 0, 255, 0, 2, 3>> }, AuxBrief)
    \/ LoadConfigFromJsonOp

SpecFile == InitCmd /\ [][NextFile]_vars

\* The mode switch: setOperationMode on a started driver for the four modes
\* and for a name that is no mode, the module driving AUX as it likes between
\* the calls and during the two waits of a call.
NextMode ==
    \/ SetOperationModeOp(DOMAIN OPERMODE \cup {"off"}, AuxReads)
    \/ AuxOp

SpecMode == InitCmd /\ [][NextMode]_vars

-----------------------------------------------------------------------------
\* The idle wait: waitForDeviceIdle(timeout) called on a started driver with
\* any timeout of at most MaxTimeout in size, the loop followed poll by poll.

\* Largest timeout argument, in ms, positive or negative.
MaxTimeout == 40

\* Most sleeps followed in one call.
MaxSleeps == 6

NextWait ==
    \/ WaitCallOp((0 - MaxTimeout)..MaxTimeout)
    \/ WaitPollOp(MaxSleeps)

SpecWait == InitCmd /\ [][NextWait]_vars

-----------------------------------------------------------------------------
(* Properties                                                              *)

\* A Configuration whose fields hold valid values.
ValidConfig(cfg) ==
    /\ cfg["baudrate"] \in DOMAIN BAUDRATE
    /\ cfg["parity"] \in DOMAIN PARSTR
    /\ cfg["datarate"] \in DOMAIN DATARATE
    /\ cfg["txpower"] \in 0..3
    /\ cfg["wutime"] \in 0..7
    /\ \A k \in {"rssi", "transmode", "repeater", "lbt", "worctrl", "amb_noise"} :
           cfg[k] \in {0, 1}
    /\ "subpckt" \in DOMAIN cfg => cfg["subpckt"] \in 0..3
    /\ cfg["address"] \in 0..65535
    /\ cfg["netid"] \in 0..255
    /\ cfg["channel"] \in 0..31

\* The number a table's bit string stands for.
CodeOf(bits) == DigitsValue(bits, 2)

\* C1: for every valid Configuration, decodeConfig applied to the 10 bytes
\* that encodeConfig returns leaves every field other than frequency equal to
\* its value before encoding.
C1_RegisterRoundTrip ==
    (/\ last.op = "decodeConfig"
     /\ ValidConfig(last.pre.config)
     /\ last.args.message = encodeConfig(last.pre.config).val)
    => \A k \in DOMAIN last.pre.config \ {"frequency"} : config[k] = last.pre.config[k]

\* C2: for every valid Configuration encodeConfig returns exactly the 10 bytes
\* header, 0, 7, address div 256, address mod 256, netid, REG0, REG1, channel,
\* REG3, where REG0 is the baud rate code (3 bits), the parity code (2 bits)
\* and the air data rate code (3 bits) from the most significant bit down, and
\* REG3 is rssi, transmode, repeater, lbt, worctrl (1 bit each) and the
\* wake-up time (3 bits) from the most significant bit down.
C2_EncodeLayout ==
    (last.op = "encodeConfig" /\ ValidConfig(last.pre.config)) =>
        /\ ret.kind = "bytes"
        /\ Len(ret.val) = 10
        /\ \A i \in 1..10 : ret.val[i] \in 0..255
        /\ ret.val[1] = 192 /\ ret.val[2] = 0 /\ ret.val[3] = 7
        /\ ret.val[4] = last.pre.config["address"] \div 256
        /\ ret.val[5] = last.pre.config["address"] % 256
        /\ ret.val[6] = last.pre.config["netid"]
        /\ ret.val[7] = 32 * CodeOf(BAUDRATE[last.pre.config["baudrate"]])
                         + 8 * CodeOf(PARSTR[last.pre.config["parity"]])
                         + CodeOf(DATARATE[last.pre.config["datarate"]])
        /\ ret.val[9] = last.pre.config["channel"]
        /\ ret.val[10] = 128 * last.pre.config["rssi"] + 64 * last.pre.config["transmode"]
                          + 32 * last.pre.config["repeater"] + 16 * last.pre.config["lbt"]
                          + 8 * last.pre.config["worctrl"] + last.pre.config["wutime"]
        /\ config = last.pre.config

\* encodeConfig returned the image of a Configuration with address 0xDEAD,
\* netid 0xAA and channel 31.
C2_Witness ==
    /\ last.op = "encodeConfig"
    /\ ret.kind = "bytes"
    /\ ret.val = <<192, 0, 7, 222, 173, 170, 98, 0, 31, 3>>

\* The last event of the last operation, which follows a write of the pins, is
\* of the kind ev: the data frame's write or read comes after the switch to
\* Normal mode, a command's write and read come before it.
DataEvent(ev) ==
    /\ Len(trace) >= 2
    /\ trace[Len(trace)].ev = ev
    /\ \E i \in 1..(Len(trace) - 1) :
           /\ trace[i].ev = "pins"
           /\ \A j \in (i + 1)..(Len(trace) - 1) : trace[j].ev \in {"idle", "sleep"}

\* The mode that the address and channel of the last call select.
SelectedMode ==
    IF /\ last.args.address = last.pre.config["address"]
       /\ last.args.channel = last.pre.config["channel"]
    THEN 0 ELSE 1

\* C3: on every sendMessage and recvMessage call the mode selected is
\* transparent (0) iff the given address and channel equal those of the
\* Configuration, and fixed (1) otherwise; after the call
\* Configuration.transmode equals the selected mode.
C3_ModeResolution ==
    last.op \in {"sendMessage", "recvMessage"} => config["transmode"] = SelectedMode

\* The checksum byte of a text, by the formula of C5.
ExpectedChecksum(text) == (256 - (Sum(text) % 256)) % 256

\* C4: the bytes sendMessage writes for a dict payload are, when
\* Configuration.transmode is fixed, the destination address (high byte, low
\* byte) and channel, then the character codes of the payload's JSON text,
\* then one checksum byte iff useChecksum is set; in transparent mode the same
\* without the 3-byte prefix.  This holds for every destination, 0xFFFF
\* included, and the frame is written by a single write, the last thing the
\* call does.
C4_FrameLayout ==
    (last.op = "sendMessage" /\ last.args.payload.isdict) =>
        /\ ret.kind = "str" /\ ret.val = "OK"
        /\ DataEvent("write")
        /\ config["transmode"] \in {0, 1}
        /\ trace[Len(trace)].data =
               (IF config["transmode"] = 1
                THEN <<last.args.address \div 256, last.args.address % 256,
                       last.args.channel>>
                ELSE <<>>)
               \o dumps(last.args.payload.items)
               \o (IF last.args.useChecksum
                   THEN <<ExpectedChecksum(dumps(last.args.payload.items))>> ELSE <<>>)
        /\ ~loads(dumps(last.args.payload.items)).exc
        /\ loads(dumps(last.args.payload.items)).val = DictOf(last.args.payload.items)

\* sendMessage wrote {"msg": "HI"} with its checksum to the broadcast address
\* on channel 4.
C4_Witness ==
    /\ last.op = "sendMessage"
    /\ last.args.address = 65535
    /\ last.args.useChecksum
    /\ DataEvent("write")
    /\ trace[Len(trace)].data =
           <<255, 255, 4>> \o Str(<<"{","\"","m","s","g","\"",":"," ","\"","H","I","\"","}">>)
           \o <<78>>

\* The last call of recvMessage was given the flag useChecksum and read a
\* frame of the kind named, made with the flag and carrying an RSSI byte iff
\* RSSI is enabled in the Configuration.
ReceivedFrame(kind, useChecksum) ==
    /\ last.op = "recvMessage"
    /\ ~last.args.data.none
    /\ last.args.useChecksum = useChecksum
    /\ last.args.src.kind = kind
    /\ last.args.src.useChecksum = useChecksum
    /\ last.args.src.rssi = (config["rssi"] # 0)

\* The RSSI value reported for the bytes read by the last call.
ExpectedRssi ==
    IF config["rssi"] # 0
    THEN IntVal(last.args.data.data[Len(last.args.data.data)] - 256)
    ELSE NullVal

IsCorruptionText(text) ==
    /\ Len(text) > 26
    /\ SubSeq(text, 1, 15) = Str(<<"c","o","r","r","u","p","t"," ","m","e","s","s","a","g","e">>)

\* The last call returned the corruption result.
CorruptionResult ==
    /\ ret.kind = "dict"
    /\ DOMAIN ret.val = {KeyMsg, KeyRssi}
    /\ ret.val[KeyMsg].t = "s"
    /\ IsCorruptionText(ret.val[KeyMsg].s)

\* C7: a recvMessage with useChecksum that reads a valid checksummed frame
\* with one byte of the JSON text or of the checksum changed returns the
\* corruption result, whose msg is the corruption indicator and whose rssi is
\* the RSSI captured (null when RSSI is disabled), and does not reach the
\* JSON parsing step.
C7_CorruptionDetected ==
    ReceivedFrame("corrupt", TRUE) =>
        /\ CorruptionResult
        /\ ret.val[KeyRssi] = ExpectedRssi
        /\ \A i \in DOMAIN trace : trace[i].ev # "loads"

\* recvMessage reported a corrupt frame together with the RSSI -16.
C7_Witness ==
    /\ ReceivedFrame("corrupt", TRUE)
    /\ CorruptionResult
    /\ ret.val[KeyRssi] = IntVal(0 - 16)

\* C8: for every dict payload p, the empty one included, that sendMessage
\* frames with useChecksum, a recvMessage with useChecksum that reads the
\* frame's JSON and checksum bytes (with an RSSI byte appended iff RSSI is
\* enabled) returns a mapping equal to p extended with an rssi field, and
\* neither the corruption result nor 'NOK'.
C8_MessageRoundTrip ==
    ReceivedFrame("valid", TRUE) =>
        /\ ret.kind = "dict"
        /\ ret.val = Put(DictOf(last.args.src.payload.items), KeyRssi, ExpectedRssi)

\* C9: whenever the single read of recvMessage returns no data, recvMessage
\* returns the mapping {msg: null, rssi: null} and not 'NOK', whatever
\* useChecksum and the RSSI setting are.
C9_EmptyReceive ==
    (last.op = "recvMessage" /\ DataEvent("read") /\ trace[Len(trace)].data.none) =>
        /\ ret.kind = "dict"
        /\ ret.val = MsgRssi(NullVal, NullVal)

\* recvMessage with useChecksum and RSSI enabled read nothing and returned the
\* mapping of two nulls.
C9_Witness ==
    /\ last.op = "recvMessage"
    /\ last.args.useChecksum
    /\ config["rssi"] = 1
    /\ DataEvent("read")
    /\ trace[Len(trace)].data.none
    /\ ret.kind = "dict"
    /\ ret.val = MsgRssi(NullVal, NullVal)

\* The bytes of the last frame read that are checksummed and decoded: all but
\* the RSSI byte when RSSI is enabled.
ExpectedBody ==
    IF config["rssi"] # 0
    THEN SubSeq(last.args.data.data, 1, Len(last.args.data.data) - 1)
    ELSE last.args.data.data

\* ExpectedBody without its checksum byte and without its closing brace.
ExpectedOpenText ==
    SubSeq(ExpectedBody, 1,
           Len(ExpectedBody) - (IF last.args.useChecksum THEN 2 ELSE 1))

\* C10: when Configuration.rssi is enabled recvMessage takes the last byte v
\* of the bytes read as the RSSI and reports v - 256, a value in -256..-1,
\* and leaves that byte out of the checksum verification and of the JSON
\* decoding; when RSSI is disabled no byte is stripped and the rssi reported
\* is null.
C10_RssiDecoding ==
    (last.op = "recvMessage" /\ ~last.args.data.none) =>
        /\ ret.kind = "dict" =>
               /\ ret.val[KeyRssi] = ExpectedRssi
               /\ config["rssi"] # 0 =>
                      /\ ret.val[KeyRssi].i \in (0 - 256)..(0 - 1)
                      /\ ret.val[KeyRssi].i = last.args.data.data[Len(last.args.data.data)] - 256
        /\ (last.args.useChecksum /\ ExpectedChecksum(ExpectedBody) = 0) =>
               ~CorruptionResult
        /\ (last.args.useChecksum /\ ExpectedChecksum(ExpectedBody) # 0) =>
               CorruptionResult
        /\ \A i \in DOMAIN trace :
               trace[i].ev = "loads" =>
                   SubSeq(trace[i].data, 1, Len(ExpectedOpenText)) = ExpectedOpenText
        /\ (ReceivedFrame("valid", last.args.useChecksum)
            /\ last.args.src.payload.items # <<>>) =>
               /\ ret.kind = "dict"
               /\ \A k \in DOMAIN ret.val \ {KeyRssi} :
                      ret.val[k] = DictOf(last.args.src.payload.items)[k]
               /\ DOMAIN ret.val \ {KeyRssi} = DOMAIN DictOf(last.args.src.payload.items)

\* recvMessage, RSSI enabled, read {"a": 7} followed by the RSSI byte 240 and
\* reported the rssi -16.
C10_Witness ==
    /\ ReceivedFrame("valid", FALSE)
    /\ last.args.data.data = Str(<<"{","\"","a","\"",":"," ","7","}">>) \o <<240>>
    /\ ret.kind = "dict"
    /\ ret.val = Put(Put(<< >>, Str(<<"a">>), IntVal(7)), KeyRssi, IntVal(0 - 16))

\* The number that a hex text returned by calcChecksum stands for.
HexValue(text) == ParseInt(text, 16)

\* C5: for every sequence s of character codes, the value calcChecksum yields
\* is (-(sum(s) mod 256)) mod 256: a value in 0..255 that is 0 when the sum is
\* a multiple of 256 and 256 - (sum mod 256) otherwise.
C5_ChecksumValue ==
    last.op = "calcChecksum" =>
        /\ ret.kind = "text"
        /\ ~HexValue(ret.val).exc
        /\ HexValue(ret.val).val \in 0..255
        /\ HexValue(ret.val).val =
               (IF Sum(last.args.payload) % 256 = 0 THEN 0
                ELSE 256 - (Sum(last.args.payload) % 256))

\* calcChecksum returned F1 (241) for a text whose codes sum to 271.
C5_Witness ==
    /\ last.op = "calcChecksum"
    /\ last.args.payload = <<255, 16>>
    /\ ret.val = Str(<<"F","1">>)

\* C6: the checksum computed over a sequence followed by its own checksum
\* byte is 0: the sum of the sequence and its checksum is 0 mod 256.
C6_SelfVerification ==
    (last.op = "calcChecksum" /\ last.args.appended) =>
        /\ HexValue(ret.val).val = 0
        /\ Sum(last.args.payload) % 256 = 0

\* calcChecksum returned 0 for the text (255, 16) followed by its checksum 241.
C6_Witness ==
    /\ last.op = "calcChecksum"
    /\ last.args.appended
    /\ last.args.payload = <<255, 16, 241>>
    /\ ret.val = Str(<<" ","0">>)

-----------------------------------------------------------------------------
(* The command path                                                        *)

\* The last operation ended with its read of the response.
ResponseRead == trace # <<>> /\ trace[Len(trace)].ev = "read"

\* What that read returned.
Response == trace[Len(trace)].data

\* C11: whenever getConfig, setConfig or showPID reads no response or one
\* whose length is not 10, it returns 'NOK' and the configuration is as it
\* was before the call.
C11_FailedCommand ==
    (/\ last.op \in {"getConfig", "setConfig", "showPID"}
     /\ ResponseRead
     /\ (Response.none \/ Len(Response.data) # 10))
    => /\ ret.kind = "str"
       /\ ret.val = "NOK"
       /\ config = last.pre.config

\* showPID read a 3-byte answer and returned 'NOK'.
C11_Witness ==
    /\ last.op = "showPID"
    /\ ResponseRead
    /\ ~Response.none
    /\ Response.data = <<193, 0, 7>>
    /\ ret.kind = "str"
    /\ ret.val = "NOK"

\* C12: a getConfig that reads a 10-byte register image whose parity field
\* (bits 4..3 of REG0) is binary 11 returns 'NOK' and leaves the configuration
\* as it was before the call.
C12_StrictDecode ==
    (/\ last.op = "getConfig"
     /\ ResponseRead
     /\ ~Response.none
     /\ Len(Response.data) = 10
     /\ (Response.data[7] \div 8) % 4 = 3)
    => /\ ret.kind = "str"
       /\ ret.val = "NOK"
       /\ config = last.pre.config

-----------------------------------------------------------------------------
(* Channel and frequency                                                   *)

\* The channel that start makes of the channel c.
EffectiveChannel(c) == IF c > 31 THEN 31 ELSE c

\* C13: after start, for a channel c >= 0 configured before it, the
\* configuration's channel is 31 when c > 31 and c otherwise, and the 10-byte
\* frame that start wrote carries this channel in byte 8.
C13_ChannelClamp ==
    (last.op = "start" /\ last.pre.config["channel"] >= 0)
    => /\ config["channel"] = EffectiveChannel(last.pre.config["channel"])
       /\ \A i \in DOMAIN trace :
              trace[i].ev = "write" =>
                  /\ Len(trace[i].data) = 10
                  /\ trace[i].data[9] = EffectiveChannel(last.pre.config["channel"])

\* C14: in every state the configuration's frequency is the base frequency
\* plus the configuration's channel (in kHz: 850125 + 1000 * channel).
C14_DerivedFrequency == config["frequency"] = 850125 + 1000 * config["channel"]

-----------------------------------------------------------------------------
(* Faults                                                                  *)

\* C15: whatever the state of the driver (never started: no stream and no
\* control lines; started; stopped: the stream deleted), none of the public
\* operations raises: start, stop, sendMessage, getConfig, setConfig and
\* showPID return 'OK' or 'NOK', recvMessage and sendCommand return 'NOK' or
\* what they read.
C15_NoFaultEscapes ==
    /\ last.op \in {"start", "stop", "sendMessage", "recvMessage", "getConfig", "setConfig",
                     "showPID", "sendCommand"}
           => ret.kind # "raise"
    /\ last.op \in {"start", "stop", "sendMessage", "getConfig", "setConfig", "showPID"}
           => ret.kind = "str" /\ ret.val \in {"OK", "NOK"}

\* A second stop, which finds the stream deleted, returned 'NOK'.
C15_Witness ==
    /\ last.op = "stop"
    /\ last.pre.serdev = "deleted"
    /\ ret.kind = "str"
    /\ ret.val = "NOK"

-----------------------------------------------------------------------------
(* The idle wait                                                           *)

\* The number of sleeps that a timeout argument allows for.
SleepBudget(timeout) == IF timeout < 0 THEN 0 ELSE timeout \div 10

\* C16: a call waitForDeviceIdle(timeout), for any integer timeout and
\* whatever AUX does, never sleeps more often than timeout div 10 times (not
\* at all for a negative timeout), and when it ends on a busy line it has used
\* up these sleeps and printed the TIMEOUT diagnostic.
C16_BoundedIdleWait ==
    wait.pc # "none"
    => /\ wait.sleeps <= SleepBudget(wait.timeout)
       /\ (wait.pc = "done" /\ pins.aux = 0)
              => (wait.diag /\ wait.sleeps = SleepBudget(wait.timeout))

-----------------------------------------------------------------------------
(* The mode switch                                                         *)

\* The last operation was a setOperationMode call on a driver whose control
\* lines exist.
ModeSwitched == last.op = "setOperationMode" /\ last.pre.pins.made

\* C17: every setOperationMode call performs an idle wait, the write of M0
\* and M1, a second idle wait and a sleep of 50 ms, in this order and nothing
\* else; the lines are written once, whether or not the first wait timed out.
C17_ModeSwitchSequence ==
    ModeSwitched
    => /\ ret.kind = "None"
       /\ Len(trace) = 4
       /\ trace[1].ev = "idle"
       /\ trace[2].ev = "pins"
       /\ trace[2].data = <<pins.m0, pins.m1>>
       /\ trace[3].ev = "idle"
       /\ trace[4].ev = "sleep"
       /\ trace[4].data = 50

\* A call whose first idle wait timed out after 20 sleeps, and which wrote
\* the lines for Sleep mode after it.
C17_Witness ==
    /\ ModeSwitched
    /\ last.args.mode = "sleep"
    /\ Len(trace) = 4
    /\ trace[1].ev = "idle"
    /\ trace[1].data.diag
    /\ trace[1].data.sleeps = 20
    /\ trace[2].ev = "pins"
    /\ trace[2].data = <<1, 1>>

\* The values of M0 and M1 that the driver documents for a mode.
DocumentedLines(mode) ==
    CASE mode = "normal" -> [m0 |-> 0, m1 |-> 0]
      [] mode = "wakeup" -> [m0 |-> 1, m1 |-> 0]
      [] mode = "config" -> [m0 |-> 0, m1 |-> 1]
      [] mode = "sleep" -> [m0 |-> 1, m1 |-> 1]

\* The values of M0 and M1 after a setOperationMode(mode) in the state now.
LinesAfter(mode) ==
    [m0 |-> setOperationMode(St, mode).st.pins.m0, m1 |-> setOperationMode(St, mode).st.pins.m1]

\* C18: after setOperationMode the lines are M0=0,M1=0 for 'normal',
\* M0=1,M1=0 for 'wakeup', M0=0,M1=1 for 'config' and M0=1,M1=1 for 'sleep';
\* two different modes give two different pairs, and in whatever mode the
\* driver is, a call for any of the four modes sets the lines of that mode.
C18_DocumentedLines ==
    /\ (ModeSwitched /\ last.args.mode \in DOMAIN OPERMODE)
           => [m0 |-> pins.m0, m1 |-> pins.m1] = DocumentedLines(last.args.mode)
    /\ pins.made
           => /\ \A a, b \in DOMAIN OPERMODE : a # b => LinesAfter(a) # LinesAfter(b)
              /\ \A a \in DOMAIN OPERMODE :
                     /\ ~setOperationMode(St, a).exc
                     /\ LinesAfter(a) = DocumentedLines(a)

\* From Sleep mode (M0=1,M1=1) a call for 'wakeup' left M0=1,M1=0.
C18_Witness ==
    /\ ModeSwitched
    /\ last.args.mode = "wakeup"
    /\ last.pre.pins.m0 = 1
    /\ last.pre.pins.m1 = 1
    /\ pins.m0 = 1
    /\ pins.m1 = 0

\* The two-bit codes the modes are specified with: Normal 00, WOR 10,
\* Config 01, Sleep 11, as numbers.
PairCode(mode) ==
    CASE mode = "normal" -> 0
      [] mode = "wakeup" -> 2
      [] mode = "config" -> 1
      [] mode = "sleep" -> 3

\* C19 as stated: with the pair read as {M1,M0}, M1 first, setOperationMode
\* leaves the lines at 00 for Normal, 10 for WOR, 01 for Config, 11 for Sleep.
C19_PairM1First ==
    (ModeSwitched /\ last.args.mode \in DOMAIN OPERMODE)
    => 2 * pins.m1 + pins.m0 = PairCode(last.args.mode)

\* C19: with the pair read as {M0,M1}, M0 first, setOperationMode leaves the
\* lines at 00 for Normal, 10 for WOR, 01 for Config, 11 for Sleep.
C19_PairM0First ==
    (ModeSwitched /\ last.args.mode \in DOMAIN OPERMODE)
    => 2 * pins.m0 + pins.m1 = PairCode(last.args.mode)

\* A call for 'config' left M0=0 and M1=1.
C19_Witness ==
    /\ ModeSwitched
    /\ last.args.mode = "config"
    /\ pins.m0 = 0
    /\ pins.m1 = 1

-----------------------------------------------------------------------------
(* Command frames                                                          *)

\* The frame of a command without the wireless prefix, for the configuration
\* cfg: the register image headed 0xC0 or 0xC2, or the fixed read frames.
CommandBody(command, cfg) ==
    CASE command = "setConfigPwrDwnSave" -> [encodeConfig(cfg).val EXCEPT ![1] = 192]
      [] command = "setConfigPwrDwnNoSave" -> [encodeConfig(cfg).val EXCEPT ![1] = 194]
      [] command = "getConfig" -> <<193, 0, 7>>
      [] command = "getPID" -> <<193, 128, 7>>

\* The last operation was a sendCommand for a persist command with a
\* configuration that can be encoded, or for 'getConfig' or 'getPID'.
CommandSent ==
    /\ last.op = "sendCommand"
    /\ \/ last.args.command \in {"getConfig", "getPID"}
       \/ /\ last.args.command \in {"setConfigPwrDwnSave", "setConfigPwrDwnNoSave"}
          /\ ~encodeConfig(last.pre.config).exc

\* C20: sendCommand ends with one write, one sleep and one read.  The frame
\* written is the register image headed 0xC0 ('setConfigPwrDwnSave') or 0xC2
\* ('setConfigPwrDwnNoSave'), [0xC1,0x00,0x07] for 'getConfig' and
\* [0xC1,0x80,0x07] for 'getPID', after [0xCF,0xCF] with the wireless
\* option; the sleep is 200 ms for the two set commands and 30 ms otherwise.
C20_CommandFrames ==
    CommandSent
    => /\ Len(trace) >= 3
       /\ Cardinality({ i \in DOMAIN trace : trace[i].ev \in {"write", "read"} }) = 2
       /\ trace[Len(trace) - 2].ev = "write"
       /\ trace[Len(trace) - 2].data =
              (IF last.args.wireless_cmd THEN <<207, 207>> ELSE <<>>)
              \o CommandBody(last.args.command, last.pre.config)
       /\ trace[Len(trace) - 1].ev = "sleep"
       /\ trace[Len(trace) - 1].data =
              (IF last.args.command \in {"getConfig", "getPID"} THEN 30 ELSE 200)
       /\ trace[Len(trace)].ev = "read"
       /\ trace[Len(trace)].data = last.args.resp

\* The volatile set command sent with the wireless option, 200 ms before the
\* read.
C20_Witness ==
    /\ last.op = "sendCommand"
    /\ last.args.command = "setConfigPwrDwnNoSave"
    /\ last.args.wireless_cmd
    /\ Len(trace) >= 3
    /\ trace[Len(trace) - 2].ev = "write"
    /\ trace[Len(trace) - 2].data = <<207, 207, 194, 0, 7, 0, 1, 0, 98, 0, 2, 3>>
    /\ trace[Len(trace) - 1].ev = "sleep"
    /\ trace[Len(trace) - 1].data = 200

-----------------------------------------------------------------------------
(* Reconfiguration by sendMessage and recvMessage                          *)

\* The persist frame for the configuration before the last call with the
\* transmission mode that the call selects.
ModeFrame ==
    [encodeConfig(Put(last.pre.config, "transmode", SelectedMode)).val EXCEPT ![1] = 192]

\* The event at i is of the kind ev and has the data d.
EventIs(i, ev, d) == trace[i].ev = ev /\ trace[i].data = d

\* C21: on a started driver, sendMessage and recvMessage write a persist
\* command frame iff the mode they select differs from
\* Configuration.transmode at the call.  The
\* frame then carries the selected mode (bit 6 of byte 9); it is written and
\* its response read in Config mode, before the lines are switched to Normal
\* mode, and every other write or read of the call comes after that switch.
\* When the mode does not differ the only write is that of the data frame.
C21_ReconfigureFirst ==
    (last.op \in {"sendMessage", "recvMessage"} /\ last.pre.serdev = "open")
    => IF SelectedMode # last.pre.config["transmode"]
       THEN \E w \in DOMAIN trace, p \in DOMAIN trace :
                /\ w + 2 < p
                /\ EventIs(w, "write", ModeFrame)
                /\ (trace[w].data[10] \div 64) % 2 = SelectedMode
                /\ trace[w + 1].ev = "sleep"
                /\ trace[w + 2].ev = "read"
                /\ \E c \in 1..(w - 1) :
                       /\ EventIs(c, "pins", <<0, 1>>)
                       /\ \A j \in (c + 1)..(w - 1) : trace[j].ev \in {"idle", "sleep"}
                /\ EventIs(p, "pins", <<0, 0>>)
                /\ \A j \in DOMAIN trace :
                       (trace[j].ev \in {"write", "read"} /\ j # w /\ j # w + 2) => j > p
                /\ \A j \in DOMAIN trace :
                       (trace[j].ev = "write" /\ j # w)
                           => (j = Len(trace) /\ last.op = "sendMessage")
       ELSE \A j \in DOMAIN trace :
                trace[j].ev = "write" => (j = Len(trace) /\ last.op = "sendMessage")

\* A sendMessage to another address and channel on a transparent
\* configuration: the frame with the fixed-mode bit, then the data frame.
C21_Witness ==
    /\ last.op = "sendMessage"
    /\ last.pre.config["transmode"] = 0
    /\ SelectedMode = 1
    /\ ret.kind = "str"
    /\ ret.val = "OK"
    /\ \E w \in DOMAIN trace : EventIs(w, "write", <<192, 0, 7, 0, 1, 0, 98, 0, 2, 67>>)
    /\ trace[Len(trace)].ev = "write"

\* C22: a sendMessage to an address or channel other than the
\* transmitter's changes the configuration before the transmission, and
\* after the transmission the Configuration is again the one before the
\* call, in memory (transmode) and in the last frame written to the module
\* (bit 6 of byte 9).
C22_RevertAfterFixed ==
    (/\ last.op = "sendMessage"
     /\ ~debug
     /\ SelectedMode = 1
     /\ last.pre.config["transmode"] = 0
     /\ trace[Len(trace)].ev = "write")
    => /\ config["transmode"] = 0
       /\ \E w \in DOMAIN trace :
              /\ trace[w].ev = "write"
              /\ trace[w + 1].ev = "sleep"
              /\ (trace[w].data[10] \div 64) % 2 = 0
              /\ \A j \in (w + 1)..Len(trace) :
                     trace[j].ev = "write" => trace[j - 1].ev = "idle"

\* C23: for a payload that is no dict sendMessage returns 'NOK' and writes
\* no data frame, whatever the destination and the checksum flag: the call
\* ends with the switch to Normal mode, and the only write it can have made
\* is that of the command frame which sets the transmission mode.
C23_PayloadValidation ==
    (last.op = "sendMessage" /\ ~last.args.payload.isdict)
    => /\ ret.kind = "str"
       /\ ret.val = "NOK"
       /\ trace[Len(trace)].ev = "sleep"
       /\ \A j \in DOMAIN trace :
              trace[j].ev = "write"
                  => /\ trace[j + 1].ev = "sleep"
                     /\ trace[j].data = ModeFrame
                     /\ \E p \in (j + 1)..Len(trace) : EventIs(p, "pins", <<0, 0>>)

\* A payload that is no dict sent with the checksum flag to another
\* address: the command frame is written, the module is left in Normal mode.
C23_Witness ==
    /\ last.op = "sendMessage"
    /\ ~last.args.payload.isdict
    /\ last.args.useChecksum
    /\ last.args.address = 3
    /\ \E j \in DOMAIN trace : trace[j].ev = "write"
    /\ pins.m0 = 0
    /\ pins.m1 = 0
    /\ ret.kind = "str"
    /\ ret.val = "NOK"

-----------------------------------------------------------------------------
(* Diagnostics                                                             *)

\* The last setConfig as an instance with the other debug setting runs it:
\* the same state before it, the same command and the same bytes read.
OtherDebug == setConfig(last.pre, ~debug, last.args.save_cmd, last.args.resp)

\* The fields of the Configuration that hold a number in every state.
NumberFields == {"address", "netid", "channel", "transmode", "rssi", "txpower", "amb_noise"}

\* C24: two instances that differ only in debug agree after every step in
\* the Configuration, the bytes written, the control lines and the value
\* returned; setConfig changes no field of the Configuration from the
\* response of the module.
C24_DebugIndependent ==
    last.op = "setConfig"
    => /\ ret = OtherDebug.ret
       /\ trace = OtherDebug.st.trace
       /\ pins = OtherDebug.st.pins
       /\ DOMAIN config = DOMAIN OtherDebug.st.config
       /\ \A k \in NumberFields : config[k] = OtherDebug.st.config[k]
       /\ DOMAIN config = DOMAIN last.pre.config
       /\ \A k \in NumberFields : config[k] = last.pre.config[k]

-----------------------------------------------------------------------------
(* The persistence file                                                    *)

\* C25: when saveConfigToJson has stored a Configuration and the
\* Configuration in memory was changed since, loadConfigFromJson makes every
\* field of the Configuration equal to the stored one again; no other
\* operation reads the file.
C25_FileRoundTrip ==
    /\ (last.op = "loadConfigFromJson" /\ file.saved /\ ~debug)
           => /\ DOMAIN config = DOMAIN file.cfg
              /\ \A k \in NumberFields : config[k] = file.cfg[k]
    /\ last.op # "loadConfigFromJson" => \A j \in DOMAIN trace : trace[j].ev # "load"

-----------------------------------------------------------------------------
(* The constructor's arguments                                             *)

\* The code that TXPOWER maps to the setting p, 0 for a setting it has not.
PowerCode(p) ==
    IF \E c \in DOMAIN TXPOWER : TXPOWER[c] = p
    THEN CHOOSE c \in DOMAIN TXPOWER : TXPOWER[c] = p
    ELSE 0

\* C26: the constructor stores for 22, 17, 13 and 10 dBm the code that
\* TXPOWER maps back to the setting (0, 1, 2, 3), which encodeConfig puts in
\* bits 1:0 of register byte 7; only for a setting outside the table it
\* stores the default 0.
C26_TxPowerCodes ==
    (last.op = "init" /\ input.Baudrate.kind = "int")
    => /\ config["txpower"] = PowerCode(input.TXpower)
       /\ (input.TXpower \in {"22dBm", "17dBm", "13dBm", "10dBm"}
              /\ ~encodeConfig(Sanitize(config)).exc)
           => /\ TXPOWER[encodeConfig(Sanitize(config)).val[8] % 4] = input.TXpower
              /\ (config["txpower"] = 0 <=> input.TXpower = "22dBm")

\* The value start is to leave in a field: the argument when the table has
\* it, else the default.
Sanitised(arg, table, default) == IF arg \in table THEN arg ELSE default

\* C27: start returns 'OK' whatever the port, the baudrate, the parity and
\* the air data rate given to the constructor, and leaves in each of the four
\* fields the value given when it is in the table, and 'U1', 9600, '8N1',
\* '2.4k' when it is not.
C27_StartSanitises ==
    (last.op = "start" /\ ~debug)
    => /\ ret.kind = "str"
       /\ ret.val = "OK"
       /\ input.Baudrate.kind = "int"
       /\ config["port"] = Sanitised(input.Port, {"U0", "U1", "U2", "U3"}, "U1")
       /\ config["baudrate"] = Sanitised(input.Baudrate.val, DOMAIN BAUDRATE, 9600)
       /\ config["parity"] = Sanitised(input.Parity, DOMAIN PARSTR, "8N1")
       /\ config["datarate"] = Sanitised(input.AirDataRate, DOMAIN DATARATE, "2.4k")

-----------------------------------------------------------------------------
(* The result of start                                                     *)

\* C28: start returns 'OK' only when its persist command succeeded, the
\* frame written and a response of 10 bytes read; when no response or a
\* response of another length is read it returns 'NOK'.
C28_StartReportsPersist ==
    last.op = "start"
    => /\ ret.kind = "str"
       /\ (ret.val = "OK")
              <=> (ResponseRead /\ ~Response.none /\ Len(Response.data) = 10)

-----------------------------------------------------------------------------
(* Frames and operating modes                                              *)

\* The values last written to M0 and M1 before the event at j of the last
\* operation, << >> when it wrote none before.
LinesAt(j) ==
    IF \E i \in 1..(j - 1) : trace[i].ev = "pins"
    THEN trace[CHOOSE i \in 1..(j - 1) :
                   /\ trace[i].ev = "pins"
                   /\ \A k \in (i + 1)..(j - 1) : trace[k].ev # "pins"].data
    ELSE << >>

\* The write at j is that of a command frame: sendCommand sleeps and reads
\* after it.
IsCommandWrite(j) == trace[j].ev = "write" /\ j < Len(trace) /\ trace[j + 1].ev = "sleep"

\* The read at j is that of recvMessage, not the read of a command's response.
IsDataRead(j) == trace[j].ev = "read" /\ (j < 3 \/ trace[j - 2].ev # "write")

\* C29: every command frame is written while the lines stand at Config
\* (M0=0, M1=1); every data frame is written by sendMessage, and every data
\* read made by recvMessage, while they stand at Normal (M0=0, M1=0), also
\* in a call that has just set the transmission mode.
C29_FrameKindMatchesMode ==
    \A j \in DOMAIN trace :
        /\ IsCommandWrite(j) => LinesAt(j) = <<0, 1>>
        /\ (trace[j].ev = "write" /\ ~IsCommandWrite(j))
               => (last.op = "sendMessage" /\ LinesAt(j) = <<0, 0>>)
        /\ IsDataRead(j) => (last.op = "recvMessage" /\ LinesAt(j) = <<0, 0>>)

\* A sendMessage that set the transmission mode: its command frame went out
\* in Config mode, its data frame in Normal mode.
C29_Witness ==
    /\ last.op = "sendMessage"
    /\ \E j \in DOMAIN trace : IsCommandWrite(j) /\ LinesAt(j) = <<0, 1>>
    /\ trace[Len(trace)].ev = "write"
    /\ LinesAt(Len(trace)) = <<0, 0>>

-----------------------------------------------------------------------------
(* The sub-packet field                                                    *)

\* C30: bits 7:6 of register byte 7 in the image that encodeConfig yields
\* are the 2-bit code of the Configuration's sub-packet size, and
\* decodeConfig stores as subpckt the code in bits 7:6 of byte 7 of the image
\* it is given.
C30_SubPacketCode ==
    /\ (last.op = "encodeConfig" /\ ret.kind = "bytes" /\ "subpckt" \in DOMAIN last.pre.config)
           => ret.val[8] \div 64 = last.pre.config["subpckt"]
    /\ (last.op = "decodeConfig" /\ ret.kind = "None" /\ Len(last.args.message) >= 10)
           => config["subpckt"] = last.args.message[8] \div 64

-----------------------------------------------------------------------------
(* The operating mode left by an operation                                 *)

\* C31: on a started driver the lines stand at Config (M0=0, M1=1) after
\* start, getConfig, setConfig, showPID and sendCommand, and at Normal
\* (M0=0, M1=0) after a sendMessage or recvMessage that returned anything but
\* 'NOK', whatever mode the call found.
C31_ModeLeft ==
    pins.made
    => /\ last.op \in {"start", "getConfig", "setConfig", "showPID", "sendCommand"}
             => (pins.m0 = 0 /\ pins.m1 = 1)
       /\ (last.op \in {"sendMessage", "recvMessage"}
              /\ ~(ret.kind = "str" /\ ret.val = "NOK"))
             => (pins.m0 = 0 /\ pins.m1 = 0)

\* getConfig on a driver that a sendMessage left in Normal mode: the lines
\* stand at Config, and are not put back.
C31_Witness ==
    /\ last.op = "getConfig"
    /\ last.pre.pins.made
    /\ last.pre.pins.m0 = 0
    /\ last.pre.pins.m1 = 0
    /\ pins.m0 = 0
    /\ pins.m1 = 1

-----------------------------------------------------------------------------
(* A failed reconfiguration                                                *)

\* The last operation wrote a command frame and read no response of 10 bytes.
CommandFailed ==
    \E j \in DOMAIN trace :
        /\ IsCommandWrite(j)
        /\ (trace[j + 2].data.none \/ Len(trace[j + 2].data.data) # 10)

\* The Configuration before the last call held a transmission mode other than
\* the one last stored with an acknowledged persist command (the one in the
\* file, which setConfig writes on success only).
ModeUnconfirmed ==
    /\ last.pre.file.saved
    /\ last.pre.file.cfg["transmode"] # last.pre.config["transmode"]

\* C32: when the persist command of setTransmissionMode fails, the
\* Configuration holds the new mode all the same, nothing is saved, and a
\* sendMessage with a dict payload goes on to write its data frame and
\* returns 'OK'.  A later sendMessage or recvMessage that selects the mode
\* the Configuration holds writes no command frame, so that the difference
\* stays as it is.
C32_NoRetry ==
    (last.op \in {"sendMessage", "recvMessage"} /\ last.pre.serdev = "open")
    => /\ (SelectedMode # last.pre.config["transmode"] /\ CommandFailed)
              => /\ config["transmode"] = SelectedMode
                 /\ file = last.pre.file
                 /\ (last.op = "sendMessage" /\ last.args.payload.isdict)
                        => /\ ret.kind = "str"
                           /\ ret.val = "OK"
                           /\ trace[Len(trace)].ev = "write"
                           /\ ~IsCommandWrite(Len(trace))
       /\ (SelectedMode = last.pre.config["transmode"] /\ ModeUnconfirmed)
              => /\ \A j \in DOMAIN trace : ~IsCommandWrite(j)
                 /\ config["transmode"] = last.pre.config["transmode"]
                 /\ file = last.pre.file

\* A sendMessage in fixed mode after the persist command for that mode had
\* failed: the file still says transparent, the data frame goes out with its
\* prefix and no command frame is written.
C32_Witness ==
    /\ last.op = "sendMessage"
    /\ ModeUnconfirmed
    /\ last.pre.config["transmode"] = 1
    /\ SelectedMode = 1
    /\ ret.kind = "str"
    /\ ret.val = "OK"
    /\ Len(trace) >= 1
    /\ trace[Len(trace)].ev = "write"
    /\ file.cfg["transmode"] = 0

-----------------------------------------------------------------------------
(* Inbound data and the command path                                       *)

\* C33: when a data frame is on the stream at a recvMessage or sendMessage
\* call that sends the persist command, the read of the command's response
\* returns the frame, with the module's answer and what arrived before the
\* read behind it.  The recvMessage then reads only what arrived after that
\* read and returns no message when nothing did; and when the bytes read as
\* the response are not 10 the command counts as failed: nothing is saved.
C33_InboundConsumed ==
    (/\ last.op \in {"sendMessage", "recvMessage"}
     /\ last.args.buffered # << >>
     /\ \E j \in DOMAIN trace : IsCommandWrite(j))
    => /\ \E j \in DOMAIN trace :
              /\ IsCommandWrite(j)
              /\ ~trace[j + 2].data.none
              /\ trace[j + 2].data.data
                     = last.args.buffered \o last.args.answer \o last.args.mid
       /\ input.buffer = (IF last.op = "recvMessage" THEN << >> ELSE last.args.late)
       /\ last.op = "recvMessage"
              => /\ \E j \in DOMAIN trace :
                        /\ IsDataRead(j)
                        /\ trace[j].data = StreamRead(last.args.late).resp
                 /\ last.args.late = << >>
                        => ret = Ret("dict", MsgRssi(NullVal, NullVal))
       /\ Len(last.args.buffered \o last.args.answer \o last.args.mid) # 10
              => /\ file = last.pre.file
                 /\ config = Put(last.pre.config, "transmode", SelectedMode)

\* A recvMessage that changed the mode while a data frame was on the stream:
\* the module answered, 19 bytes were read as the response, no message was
\* returned.
C33_Witness ==
    /\ last.op = "recvMessage"
    /\ last.args.buffered = Wire(HelloPayload, FALSE)
    /\ last.args.answer # << >>
    /\ \E j \in DOMAIN trace : IsCommandWrite(j)
    /\ ret = Ret("dict", MsgRssi(NullVal, NullVal))
    /\ input.buffer = << >>
    /\ config["transmode"] = 1
    /\ file.cfg["transmode"] = 0

-----------------------------------------------------------------------------
(* A rejected send                                                         *)

\* C34: a sendMessage on a started driver that returns 'NOK' because its
\* payload is no dict has by then moved the lines to Normal mode, and when
\* the mode it selects is not the one of the Configuration it has written
\* the persist command frame for that mode before, and (the response not
\* being decoded) left the selected mode in the Configuration; no data frame
\* is written.
C34_RejectedSendEffects ==
    (last.op = "sendMessage" /\ ~last.args.payload.isdict /\ last.pre.serdev = "open")
    => /\ ret = Ret("str", "NOK")
       /\ \E p \in DOMAIN trace : EventIs(p, "pins", <<0, 0>>)
       /\ pins.m0 = 0
       /\ pins.m1 = 0
       /\ SelectedMode # last.pre.config["transmode"]
              => /\ \E j \in DOMAIN trace : IsCommandWrite(j) /\ trace[j].data = ModeFrame
                 /\ ~debug => config["transmode"] = SelectedMode
       /\ \A j \in DOMAIN trace : trace[j].ev = "write" => IsCommandWrite(j)

\* A rejected send that found transparent mode and the lines at Config: the
\* Configuration now says fixed, the lines stand at Normal, the command frame
\* went out.
C34_Witness ==
    /\ last.op = "sendMessage"
    /\ ~last.args.payload.isdict
    /\ ret = Ret("str", "NOK")
    /\ last.pre.config["transmode"] = 0
    /\ config["transmode"] = 1
    /\ last.pre.pins.m1 = 1
    /\ pins.m1 = 0
    /\ \E j \in DOMAIN trace : IsCommandWrite(j)

-----------------------------------------------------------------------------
(* The lifecycle                                                           *)

\* C35: stop on a driver never started returns 'OK'; the first stop after a
\* start deletes the stream and returns 'OK'; from then on a further stop
\* returns 'NOK', and sendMessage, recvMessage, getConfig, setConfig and
\* showPID return 'NOK' and neither write to nor read from the stream, until
\* a start opens a stream again and returns 'OK'; on the open stream a
\* sendMessage with a dict payload writes its frame and returns 'OK'.
C35_Lifecycle ==
    /\ (last.op = "stop" /\ last.pre.serdev = None)
           => (ret = Ret("str", "OK") /\ serdev = None)
    /\ (last.op = "stop" /\ last.pre.serdev = "open")
           => (ret = Ret("str", "OK") /\ serdev = "deleted")
    /\ (last.op = "stop" /\ last.pre.serdev = "deleted")
           => (ret = Ret("str", "NOK") /\ serdev = "deleted")
    /\ (/\ last.op \in {"sendMessage", "recvMessage", "getConfig", "setConfig", "showPID"}
        /\ last.pre.serdev = "deleted")
           => /\ ret = Ret("str", "NOK")
              /\ serdev = "deleted"
              /\ \A j \in DOMAIN trace : trace[j].ev \notin {"write", "read"}
    /\ (last.op = "start" /\ last.pre.serdev = "deleted")
           => (ret = Ret("str", "OK") /\ serdev = "open")
    /\ (last.op = "sendMessage" /\ last.pre.serdev = "open" /\ last.args.payload.isdict)
           => (ret = Ret("str", "OK") /\ trace[Len(trace)].ev = "write")

\* A recvMessage on a stopped driver: 'NOK', nothing read.
C35_Witness ==
    /\ last.op = "recvMessage"
    /\ last.pre.serdev = "deleted"
    /\ last.pre.pins.made
    /\ ret = Ret("str", "NOK")
    /\ \A j \in DOMAIN trace : trace[j].ev # "read"

-----------------------------------------------------------------------------
(* Parity on the host and in the module                                    *)

\* The 2-bit code of the parity p in PARSTR.
ParityCode(p) == PyInt(Prefix0b \o PARSTR[p]).val

\* C36: for every parity the Configuration holds when start is called (8N1,
\* 8O1, 8E1; any other is replaced by 8N1) start opens the UART with no
\* parity, and the persist frame it then writes carries the code of the
\* Configuration's parity in bits 4:3 of register byte 6; the code is that
\* of no parity only for 8N1.
C36_HostModuleParity ==
    (last.op = "start" /\ input.Baudrate.kind = "int")
    => /\ \E u \in DOMAIN trace :
              /\ trace[u].ev = "uart"
              /\ trace[u].data.parity.kind = "None"
              /\ \E j \in DOMAIN trace :
                     /\ u < j
                     /\ IsCommandWrite(j)
                     /\ (trace[j].data[7] \div 8) % 4
                            = ParityCode(Sanitised(last.pre.config["parity"], DOMAIN PARSTR, "8N1"))
                     /\ ((trace[j].data[7] \div 8) % 4 = 0)
                            <=> (Sanitised(last.pre.config["parity"], DOMAIN PARSTR, "8N1") = "8N1")

\* start with parity 8E1: the UART is opened with no parity, the frame says
\* even parity (code 10).
C36_Witness ==
    /\ last.op = "start"
    /\ input.Baudrate.kind = "int"
    /\ last.pre.config["parity"] = "8E1"
    /\ \E u \in DOMAIN trace : trace[u].ev = "uart" /\ trace[u].data.parity.kind = "None"
    /\ \E j \in DOMAIN trace : IsCommandWrite(j) /\ (trace[j].data[7] \div 8) % 4 = 2

====
